---- MODULE Spec2Model ----
(***************************************************************************)
(* Booking intake and notification pipeline of ag-api/server.js:           *)
(* input normalizer, time zone converter, de-duplication cache with its    *)
(* periodic sweep, persistence writer (bookings table, ensureSchema) and   *)
(* notification dispatcher; plus the /api/retell/book_demo webhook of the  *)
(* earlier revision (src/unnamed/part_000).                                *)
(* The utility functions (zonedToUtcISO, pick, clean, the /api/slots       *)
(* generator) are exercised one call at a time through `call`, and the     *)
(* vendor-asset proxies of the earlier revisions (src/unnamed/part_000,    *)
(* part_002) have a specification of their own, ProxySpec.                 *)
(* The credential-minting routes (MintSpec) and the browser's realtime     *)
(* client (public/sdk/openai-realtime.v1.js with public/agent-booking.js:  *)
(* RtcSpec for start/stop/reconnect, CaptureSpec and TextSpec for the      *)
(* data-channel events, E2ESpec for one response from the channel to the   *)
(* bookings table) follow.  A text of the assistant is a sequence of       *)
(* pieces (words, newlines, the booking tag, a JSON object).               *)
(*                                                                         *)
(* Strings are sequences of one-character strings, so that trimming,       *)
(* newline collapsing, splitting and key concatenation are computed as the *)
(* code computes them.  Instants are minutes since the Unix epoch (the     *)
(* code always passes seconds = 0 and ms = 0 to Date.UTC); the in-process  *)
(* clock Date.now() is counted in seconds.  A nullable value is <<>>       *)
(* (null) or a one-element sequence.                                       *)
(***************************************************************************)
EXTENDS Integers, Sequences, FiniteSets, TLC

(* ---------------------------------------------------------------------- *)
(* Bounds                                                                  *)
(* ---------------------------------------------------------------------- *)
MaxReq == 2        \* POST /api/book requests handled in one behaviour
MaxNow == 150      \* the clock stops advancing here (seconds)
MaxDemo == 1       \* POST /api/retell/book_demo requests in one behaviour
MaxMigrate == 1    \* POST /api/db-migrate requests in one behaviour
MaxVReq == 2       \* requests for one vendor asset in one behaviour
MaxInFlight == 1   \* requests for the asset that are handled at the same time
MaxHalfDays == 2    \* the vendor-asset clock stops after this many half days
MaxCalls == 3       \* calls of start() and stop() by the page in one behaviour
MaxStarts == 3      \* calls of start(), by the page or by the reconnect timer
MaxEvents == 4      \* data-channel messages delivered in one behaviour

(* ---------------------------------------------------------------------- *)
(* Program constants                                                       *)
(* ---------------------------------------------------------------------- *)
DEDUP_SECONDS == 120     \* Number(process.env.BOOKING_DEDUP_SECONDS || 120)
SWEEP_INTERVAL == 30     \* setInterval(..., 30000)
DEFAULT_DURATION == 60   \* Number(pick(b, ['duration'], 60)) || 60
SDK_TTL_HOURS == 24      \* SDK_TTL_MS = 24 * 60 * 60 * 1000

Null == <<>>

(* ---------------------------------------------------------------------- *)
(* Strings                                                                 *)
(* ---------------------------------------------------------------------- *)
WS == {" ", "\t", "\n", "\r"}
NL == {"\n", "\r"}
Digits == {"0","1","2","3","4","5","6","7","8","9"}

DigitVal(c) ==
  CASE c = "0" -> 0 [] c = "1" -> 1 [] c = "2" -> 2 [] c = "3" -> 3 [] c = "4" -> 4
    [] c = "5" -> 5 [] c = "6" -> 6 [] c = "7" -> 7 [] c = "8" -> 8 [] c = "9" -> 9

RECURSIVE DropWhile(_, _)
DropWhile(s, set) ==
  IF s = <<>> THEN <<>>
  ELSE IF Head(s) \in set THEN DropWhile(Tail(s), set) ELSE s

RECURSIVE DropWhileEnd(_, _)
DropWhileEnd(s, set) ==
  IF s = <<>> THEN <<>>
  ELSE IF s[Len(s)] \in set THEN DropWhileEnd(SubSeq(s, 1, Len(s) - 1), set) ELSE s

\* String.prototype.trim
Trim(s) == DropWhileEnd(DropWhile(s, WS), WS)

\* s.replace(/[\r\n]+/g, ' ')
RECURSIVE CollapseNewlines(_)
CollapseNewlines(s) ==
  IF s = <<>> THEN <<>>
  ELSE IF Head(s) \in NL THEN <<" ">> \o CollapseNewlines(DropWhile(s, NL))
  ELSE <<Head(s)>> \o CollapseNewlines(Tail(s))

\* variant: newlines are kept
clean_keepNewlines(s) == Trim(s)

\* const clean = (s) => String(s ?? '').replace(/[\r\n]+/g, ' ').trim();
clean(s) == Trim(CollapseNewlines(s))

\* obj[k] != null
Has(obj, k) == k \in DOMAIN obj

\* function pick(obj, keys, def = '')
RECURSIVE pick(_, _, _)
pick(obj, keys, def) ==
  IF keys = <<>> THEN def
  ELSE IF Has(obj, Head(keys)) /\ Trim(obj[Head(keys)]) # <<>> THEN obj[Head(keys)]
  ELSE pick(obj, Tail(keys), def)

\* s.split(sep) for a one-character separator
RECURSIVE Split(_, _)
Split(s, sep) ==
  IF \A i \in 1..Len(s) : s[i] # sep THEN <<s>>
  ELSE LET i == CHOOSE j \in 1..Len(s) : s[j] = sep /\ \A h \in 1..(j - 1) : s[h] # sep
       IN <<SubSeq(s, 1, i - 1)>> \o Split(SubSeq(s, i + 1, Len(s)), sep)

RECURSIVE Join(_, _)
Join(parts, sep) ==
  IF parts = <<>> THEN <<>>
  ELSE IF Len(parts) = 1 THEN parts[1]
  ELSE parts[1] \o <<sep>> \o Join(Tail(parts), sep)

(* ---------------------------------------------------------------------- *)
(* Numbers: Number(string).  A JS number is NaN, an integer, or "big": a   *)
(* value of at least 10^12, which as a count of minutes or of years is     *)
(* beyond the range of Date (8.64e15 ms).                                  *)
(* ---------------------------------------------------------------------- *)
NaN == [kind |-> "nan", v |-> 0]
Num(n) == [kind |-> "num", v |-> n]
Big == [kind |-> "big", v |-> 0]

RECURSIVE DecVal(_)
DecVal(s) == IF s = <<>> THEN 0 ELSE DecVal(SubSeq(s, 1, Len(s) - 1)) * 10 + DigitVal(s[Len(s)])

RECURSIVE Pow10(_)
Pow10(n) == IF n = 0 THEN 1 ELSE 10 * Pow10(n - 1)

AllDigits(s) == s # <<>> /\ \A i \in 1..Len(s) : s[i] \in Digits

\* Number(s) of an unsigned literal: decimal digits, or digits 'e' digits
Unsigned(t) ==
  LET parts == Split(t, "e")
  IN IF AllDigits(t) THEN Num(DecVal(t))
     ELSE IF Len(parts) = 2 /\ AllDigits(parts[1]) /\ AllDigits(parts[2])
       THEN IF DecVal(parts[1]) = 0 THEN Num(0)
            ELSE IF DecVal(parts[2]) >= 12 THEN Big
            ELSE Num(DecVal(parts[1]) * Pow10(DecVal(parts[2])))
     ELSE NaN

\* Number(s): whitespace is trimmed, '' is 0, an optional sign and an integer
\* literal (with or without exponent) is that number, other text is NaN
\* (fractions and radix prefixes are not among the inputs of this model)
ToNumber(s) ==
  LET t == Trim(s)
  IN IF t = <<>> THEN Num(0)
     ELSE IF Head(t) = "+" THEN Unsigned(Tail(t))
     ELSE IF Head(t) = "-"
       THEN (LET u == Unsigned(Tail(t)) IN IF u.kind = "num" THEN Num(0 - u.v) ELSE u)
     ELSE Unsigned(t)

(* ---------------------------------------------------------------------- *)
(* Time zone converter                                                     *)
(* ---------------------------------------------------------------------- *)
\* days since 1970-01-01 of the proleptic Gregorian date y-m-d, m in 1..12
DaysFromCivil(y, m, d) ==
  LET yy == IF m <= 2 THEN y - 1 ELSE y
      era == yy \div 400
      yoe == yy - era * 400
      mp == IF m > 2 THEN m - 3 ELSE m + 9
      doy == (153 * mp + 2) \div 5 + d - 1
      doe == yoe * 365 + yoe \div 4 - yoe \div 100 + doy
  IN era * 146097 + doe - 719468

\* the Gregorian date of day number `days`
CivilFromDays(days) ==
  LET z == days + 719468
      era == z \div 146097
      doe == z - era * 146097
      yoe == (doe - doe \div 1460 + doe \div 36524 - doe \div 146096) \div 365
      doy == doe - (365 * yoe + yoe \div 4 - yoe \div 100)
      mp == (5 * doy + 2) \div 153
      m == IF mp < 10 THEN mp + 3 ELSE mp - 9
  IN [y |-> yoe + era * 400 + (IF m <= 2 THEN 1 ELSE 0),
      m |-> m,
      d |-> doy - (153 * mp + 2) \div 5 + 1]

\* the Gregorian year containing day number `days`
YearOfDays(days) == CivilFromDays(days).y

DigitChars == <<"0","1","2","3","4","5","6","7","8","9">>

\* the decimal digits of a natural number
RECURSIVE NumStr(_)
NumStr(n) == IF n < 10 THEN <<DigitChars[n + 1]>> ELSE Append(NumStr(n \div 10), DigitChars[(n % 10) + 1])

\* String(n).padStart(w, '0')
RECURSIVE Pad(_, _)
Pad(n, w) == IF Len(NumStr(n)) >= w THEN NumStr(n) ELSE <<"0">> \o Pad(n, w - 1)

\* Date.prototype.toISOString of a valid time value t (minutes):
\* YYYY-MM-DDTHH:mm:ss.sssZ, the year with a sign and six digits outside 0..9999
toISOString(t) ==
  LET c == CivilFromDays(t \div 1440)
      rem == t % 1440
      year == IF c.y \in 0..9999 THEN Pad(c.y, 4)
              ELSE IF c.y < 0 THEN <<"-">> \o Pad(0 - c.y, 6) ELSE <<"+">> \o Pad(c.y, 6)
  IN year \o <<"-">> \o Pad(c.m, 2) \o <<"-">> \o Pad(c.d, 2) \o <<"T">>
       \o Pad(rem \div 60, 2) \o <<":">> \o Pad(rem % 60, 2)
       \o <<":","0","0",".","0","0","0","Z">>

\* new Date(iso).getTime() of a string produced by toISOString, in minutes
DateParse(iso) ==
  LET dt == Split(iso, "T")
      signed == Head(dt[1]) \in {"+", "-"}
      dp == Split(IF signed THEN Tail(dt[1]) ELSE dt[1], "-")
      tp == Split(dt[2], ":")
      y == IF Head(dt[1]) = "-" THEN 0 - DecVal(dp[1]) ELSE DecVal(dp[1])
  IN DaysFromCivil(y, DecVal(dp[2]), DecVal(dp[3])) * 1440 + DecVal(tp[1]) * 60 + DecVal(tp[2])

\* Date.UTC(y, monthIndex, d, H, M, 0, 0) in minutes; NaN when a component is
\* not a finite number or the date is out of range.  Components are JS
\* numbers; months, days, hours and minutes out of range roll over.
DateUTC(y, mi, d, H, M) ==
  IF \E c \in {y, mi, d, H, M} : c.kind # "num" THEN NaN
  ELSE LET yf == IF y.v \in 0..99 THEN 1900 + y.v ELSE y.v
           ym == yf + (mi.v \div 12)
           mn == (mi.v % 12) + 1
           days == DaysFromCivil(ym, mn, 1) + d.v - 1
       IN IF days > 100000000 \/ days < -100000000 THEN NaN
          ELSE Num(days * 1440 + H.v * 60 + M.v)

TZ_UTC == <<"U","T","C">>
TZ_NEW_YORK == <<"A","m","e","r","i","c","a","/","N","e","w","_","Y","o","r","k">>
TZ_KOLKATA == <<"A","s","i","a","/","K","o","l","k","a","t","a">>
KnownZones == {TZ_UTC, TZ_NEW_YORK, TZ_KOLKATA}

\* day number of the n-th Sunday of month m of year y (1970-01-01 is a Thursday)
NthSunday(y, m, n) ==
  LET first == DaysFromCivil(y, m, 1)
      dow == (first + 4) % 7
  IN first + ((7 - dow) % 7) + (7 * (n - 1))

\* US daylight saving time (rule in force since 2007): from the second Sunday
\* of March 02:00 EST to the first Sunday of November 02:00 EDT
NewYorkIsDST(epochMin) ==
  LET y == YearOfDays(epochMin \div 1440)
      start == NthSunday(y, 3, 2) * 1440 + 7 * 60
      end == NthSunday(y, 11, 1) * 1440 + 6 * 60
  IN start <= epochMin /\ epochMin < end

\* function tzOffsetMinutesAt(tz, epochMs): the zone's "GMT+h[:mm]" short
\* offset at the instant; 0 when Intl throws (unknown zone, invalid date) or
\* the name is plain "GMT"
tzOffsetMinutesAt(tz, epoch) ==
  IF epoch.kind # "num" \/ tz \notin KnownZones THEN 0
  ELSE IF tz = TZ_NEW_YORK THEN (IF NewYorkIsDST(epoch.v) THEN -240 ELSE -300)
  ELSE IF tz = TZ_KOLKATA THEN 330
  ELSE 0

\* variant: the offset is added
zonedToUtcISO_plus(dateStr, timeStr, tz) ==
  IF dateStr = <<>> \/ timeStr = <<>> \/ tz = <<>> THEN Null
  ELSE LET dp == Split(dateStr, "-")
           tp == Split(timeStr, ":")
           y == ToNumber(dp[1])
           m == IF Len(dp) >= 2 THEN ToNumber(dp[2]) ELSE Num(1)
           d == IF Len(dp) >= 3 THEN ToNumber(dp[3]) ELSE Num(1)
           H == ToNumber(tp[1])
           M == IF Len(tp) >= 2 THEN ToNumber(tp[2]) ELSE Num(0)
           mi == IF m.kind = "num" THEN Num(m.v - 1) ELSE m
           naiveUTC == DateUTC(y, mi, d, H, M)
           offMin == tzOffsetMinutesAt(tz, naiveUTC)
       IN IF naiveUTC.kind # "num" THEN Null ELSE <<toISOString(naiveUTC.v + offMin)>>

\* function zonedToUtcISO(dateStr, timeStr, tz): null, or the ISO string
\* (toISOString throws on an invalid date, which the catch turns into null)
zonedToUtcISO(dateStr, timeStr, tz) ==
  IF dateStr = <<>> \/ timeStr = <<>> \/ tz = <<>> THEN Null
  ELSE LET dp == Split(dateStr, "-")
           tp == Split(timeStr, ":")
           y == ToNumber(dp[1])
           m == IF Len(dp) >= 2 THEN ToNumber(dp[2]) ELSE Num(1)
           d == IF Len(dp) >= 3 THEN ToNumber(dp[3]) ELSE Num(1)
           H == ToNumber(tp[1])
           M == IF Len(tp) >= 2 THEN ToNumber(tp[2]) ELSE Num(0)
           mi == IF m.kind = "num" THEN Num(m.v - 1) ELSE m
           naiveUTC == DateUTC(y, mi, d, H, M)
           offMin == tzOffsetMinutesAt(tz, naiveUTC)
       IN IF naiveUTC.kind # "num" THEN Null ELSE <<toISOString(naiveUTC.v - offMin)>>

(* ---------------------------------------------------------------------- *)
(* Request bodies of POST /api/book                                        *)
(* ---------------------------------------------------------------------- *)
S_ANN == <<"A","n","n">>
S_EMAIL == <<"a","@","x">>
S_DATE == <<"2","0","2","4","-","0","7","-","0","4">>
S_TIME == <<"1","4",":","3","0">>

\* the booking form: canonical keys
B_form == [fullName |-> S_ANN, email |-> S_EMAIL, date |-> S_DATE, time |-> S_TIME,
           timeZone |-> TZ_NEW_YORK, duration |-> <<"3","0">>]
\* the same booking (same email, date, time, zone) through aliases, with
\* padding and a trailing newline, and with a duration that takes the end
\* instant out of the Date range
B_alias == [fullName |-> <<" "," ">>, full_name |-> <<" ","A","n","n">>,
            mail |-> <<"a","@","x","\n">>, date |-> S_DATE, time |-> S_TIME,
            tz |-> TZ_NEW_YORK, duration |-> <<"1","e","3","0","0">>,
            source |-> <<"v","o","i","c","e","-","a","g","e","n","t">>]
\* another booking: no time zone, so the key and the conversion use 'UTC';
\* its duration is out of range too
B_noTz == [name |-> S_ANN, email |-> S_EMAIL, date |-> S_DATE, time |-> S_TIME,
           duration |-> <<"1","e","3","0","0">>]
\* each required field missing or blank
B_noName == [fullName |-> <<" ","\t">>, email |-> S_EMAIL, date |-> S_DATE, time |-> S_TIME]
B_noEmail == [fullName |-> S_ANN, date |-> S_DATE, time |-> S_TIME]
B_noDate == [fullName |-> S_ANN, email |-> S_EMAIL, date |-> <<"\n">>, time |-> S_TIME]
B_noTime == [fullName |-> S_ANN, email |-> S_EMAIL, date |-> S_DATE]

Bodies == {B_form, B_alias, B_noTz, B_noName, B_noEmail, B_noDate, B_noTime}

(* ---------------------------------------------------------------------- *)
(* Input normalizer of POST /api/book                                      *)
(* ---------------------------------------------------------------------- *)
F_fullName(b) == clean(pick(b, <<"fullName", "full_name", "name">>, <<>>))
F_email(b) == clean(pick(b, <<"email", "mail">>, <<>>))
F_phone(b) == clean(pick(b, <<"phone", "tel", "telephone">>, <<>>))
F_company(b) == clean(pick(b, <<"company", "org">>, <<>>))
F_date(b) == clean(pick(b, <<"date">>, <<>>))
F_time(b) == clean(pick(b, <<"time">>, <<>>))
F_timeZone(b) ==
  LET t == clean(pick(b, <<"timeZone", "timezone", "tz">>, <<>>))
  IN IF t = <<>> THEN TZ_UTC ELSE t
F_notes(b) == pick(b, <<"notes", "message">>, <<>>)
\* Number(pick(b, ['duration'], 60)) || 60
F_duration(b) ==
  LET n == IF Has(b, "duration") /\ Trim(b["duration"]) # <<>>
             THEN ToNumber(b["duration"]) ELSE Num(DEFAULT_DURATION)
  IN IF n.kind = "nan" \/ (n.kind = "num" /\ n.v = 0) THEN Num(DEFAULT_DURATION) ELSE n
F_source(b) == clean(pick(b, <<"source">>, <<"p","r","i","c","i","n","g">>))

\* variant: the check forgets the time
MissingRequired_noTime(b) ==
  F_fullName(b) = <<>> \/ F_email(b) = <<>> \/ F_date(b) = <<>>

\* if (!fullName || !email || !date || !time)
MissingRequired(b) ==
  F_fullName(b) = <<>> \/ F_email(b) = <<>> \/ F_date(b) = <<>> \/ F_time(b) = <<>>

\* const dedupKey = `${email}|${date}|${time}|${timeZone}`
dedupKey(b) == Join(<<F_email(b), F_date(b), F_time(b), F_timeZone(b)>>, "|")

startISO(b) == zonedToUtcISO(F_date(b), F_time(b), F_timeZone(b))

\* variant: a null start is not tolerated
EndThrows_onNull(b) == startISO(b) = Null \/ F_duration(b).kind # "num"

\* startISO ? new Date(new Date(startISO).getTime() + duration * 60000).toISOString() : null
\* throws a RangeError when the sum is not a valid time value
EndThrows(b) == startISO(b) # Null /\ F_duration(b).kind # "num"
endISO(b) ==
  IF startISO(b) = Null THEN Null
  ELSE <<toISOString(DateParse(startISO(b)[1]) + F_duration(b).v)>>

(* ---------------------------------------------------------------------- *)
(* State                                                                   *)
(* ---------------------------------------------------------------------- *)
VARIABLES
  phase,           \* "boot" until bootstrap() has run, then "listening"
  pool,            \* TRUE iff `pool` is non-null (DATABASE_URL set and initDbPool succeeded)
  transporter,     \* TRUE iff `transporter` is non-null (SMTP_HOST set)
  tableExists,     \* the bookings table exists in the database
  columns,         \* its columns
  rows,            \* its rows, in insertion order
  schemaReady,     \* an ensureSchema query has succeeded ('DB: schema ready')
  now,             \* Date.now(), seconds
  nextSweep,       \* when the setInterval callback is next due
  recentBookings,  \* Map: dedupKey -> expiresAt
  req,             \* POST /api/book requests
  demo,            \* POST /api/retell/book_demo requests
  migrations,      \* response statuses of the POST /api/db-migrate requests served
  call,            \* a call of a utility function or of GET /api/slots: its
                   \* arguments and, once it has returned, its result
  proxy,           \* the vendor-asset route that the requests of vreq are for
  disk,            \* its local file under public/vendor: null or the content
  diskWritable,    \* TRUE iff fs.mkdir / fs.writeFile succeed there
  sdkCache,        \* sdkCache and sdkCacheTime: null or the buffer and its time
  vreq,            \* the requests for the vendor asset
  current,         \* realtime client: null or the peer connection of `current`
  lastOpts,        \* null or the options of the last start()
  reconnectTimer,  \* TRUE iff reconnectTimer holds a timeout
  pingTimer,       \* null or the interval it holds, named by its connection
  postedResponseIds, \* the response ids a booking was posted for
  timeouts,        \* the reconnect timeouts that are pending in the browser
  intervals,       \* the ping intervals that are active in the browser
  pcs,             \* the peer connections created by start(), in order
  starts,          \* the calls of start(): where each is suspended
  calls,           \* the calls of start() and stop() made by the page
  heard,           \* the messages delivered on the data channels
  hookCalls,       \* the calls of window.AGENT_BOOKING.onAssistantText
  posts            \* the POST /api/book requests sent by the page

\* the state of the booking pipeline and of the database
bookVars == <<phase, pool, transporter, tableExists, columns, rows, schemaReady,
              now, nextSweep, recentBookings, req, demo, migrations>>
\* the state of the vendor-asset proxies
proxyVars == <<proxy, disk, diskWritable, sdkCache, vreq>>
\* the state of everything else
\* the state of the realtime client: what it captured, and all of it
capVars == <<postedResponseIds, heard, hookCalls, posts>>
clientVars == <<current, lastOpts, reconnectTimer, pingTimer, timeouts, intervals,
                pcs, starts, calls, capVars>>
otherVars == <<call, proxyVars, clientVars>>

vars == <<bookVars, otherVars>>

\* no call is in progress
NoCall == [fn |-> "none"]

Reqs == 1..MaxReq
Demos == 1..MaxDemo
TickSteps == {SWEEP_INTERVAL}

(* ---------------------------------------------------------------------- *)
(* The bookings table                                                      *)
(* ---------------------------------------------------------------------- *)
\* CREATE TABLE IF NOT EXISTS bookings (...) of ag-api/server.js
FULL_COLUMNS == {"id", "created_at", "name", "full_name", "email", "phone", "company",
                 "notes", "timezone", "start_utc", "end_utc", "duration_min", "source",
                 "date", "time"}
\* the table as created by the oldest revision
NARROW_COLUMNS == {"id", "created_at", "full_name", "email", "phone", "company", "date",
                   "time", "timezone", "notes"}
\* INSERT INTO bookings (...) of POST /api/book
INSERT_COLUMNS == {"full_name", "name", "email", "phone", "company", "notes", "timezone",
                   "start_utc", "end_utc", "duration_min", "source", "date", "time"}
\* INSERT INTO bookings (...) of POST /api/retell/book_demo
DEMO_INSERT_COLUMNS == {"full_name", "name", "email", "phone", "company", "notes", "source"}

\* a row written by the oldest revision's POST /api/book
LegacyRow == [id |-> 1, full_name |-> S_ANN, email |-> S_EMAIL, phone |-> <<>>,
              company |-> <<>>, date |-> S_DATE, time |-> S_TIME, timezone |-> <<>>,
              notes |-> <<>>]

\* the row of the VALUES list of POST /api/book
BookRow(b, id) ==
  [id |-> id, full_name |-> F_fullName(b), name |-> F_fullName(b), email |-> F_email(b),
   phone |-> F_phone(b), company |-> F_company(b), notes |-> F_notes(b),
   timezone |-> F_timeZone(b), start_utc |-> startISO(b), end_utc |-> endISO(b),
   duration_min |-> F_duration(b).v, source |-> F_source(b), date |-> F_date(b),
   time |-> F_time(b)]

\* the effect of the ensureSchema query on the set of columns: CREATE TABLE
\* IF NOT EXISTS creates the full table, and leaves an existing table alone
ensureSchemaColumns(exists, cols) == IF exists THEN cols ELSE FULL_COLUMNS

\* variant: the table is dropped and created again
ensureSchemaRows_recreate(exists, rs) == <<>>

\* ... and never touches the rows
ensureSchemaRows(exists, rs) == rs

\* a query that names columns succeeds only on a table that has them
CanInsert(cols) == pool /\ tableExists /\ cols \subseteq columns

\* the rows after an INSERT
InsertRow(rs, row) == Append(rs, row)

(* ---------------------------------------------------------------------- *)
(* De-duplication cache                                                    *)
(* ---------------------------------------------------------------------- *)
\* variant: the comparison is inverted
Live_inverted(map, key, t) == key \in DOMAIN map /\ map[key] < t

\* variant: an entry that expires now still counts as live
Live_inclusive(map, key, t) == key \in DOMAIN map /\ map[key] >= t

\* recentBookings.get(dedupKey) > now   (undefined > now is false)
Live(map, key, t) == key \in DOMAIN map /\ map[key] > t

\* variant: the time-to-live is not added
SetEntry_noTtl(map, key, t) ==
  [k \in DOMAIN map \cup {key} |-> IF k = key THEN t ELSE map[k]]

\* recentBookings.set(dedupKey, now + DEDUP_SECONDS * 1000)
SetEntry(map, key, t) ==
  [k \in DOMAIN map \cup {key} |-> IF k = key THEN t + DEDUP_SECONDS ELSE map[k]]

\* variant: an entry that expires at the sweep time is kept
SweepMap_strict(map, t) == [k \in {j \in DOMAIN map : ~(map[j] < t)} |-> map[k]]

\* for (const [k, t] of recentBookings) if (t <= now) recentBookings.delete(k);
SweepMap(map, t) == [k \in {j \in DOMAIN map : ~(map[j] <= t)} |-> map[k]]

EmptyMap == [k \in {} |-> 0]

\* variant: a duplicate renews the entry
DedupHit_renew(map, key, t) == SetEntry(map, key, t)

\* the map after a request was short-circuited as a duplicate: the handler
\* returns before recentBookings.set
DedupHit(map, key, t) == map

(* ---------------------------------------------------------------------- *)
(* POST /api/book                                                          *)
(* ---------------------------------------------------------------------- *)
IdleReq == [pc |-> "idle", body |-> <<>>, at |-> 0, status |-> 0,
            dedup |-> FALSE, insAtt |-> 0, userAtt |-> 0, salesAtt |-> 0,
            insOk |-> FALSE, userOk |-> FALSE, salesOk |-> FALSE]

\* res.status(st).json({ ok: st = 200, ... })
Respond(r, st) == [r EXCEPT !.pc = "done", !.status = st]

\* variant: a failed insert is tried again
AfterInsert_retry(insertOk, hasTransporter) ==
  IF ~insertOk THEN "insert" ELSE IF hasTransporter THEN "user" ELSE "done"

\* where the handler goes once the insert step is over (the catch around the
\* insert only logs): to the confirmation email if there is a transporter,
\* else to the response
AfterInsert(insertOk, hasTransporter) == IF hasTransporter THEN "user" ELSE "done"

\* variant: a failed confirmation email ends the handler
AfterUserMail_abort(userOk) == IF userOk THEN "sales" ELSE "done"

\* where the handler goes once the confirmation email has settled (its catch
\* only logs): the sales email
AfterUserMail(userOk) == "sales"

\* variant: 500 when nothing was stored and nothing was sent
FinalStatus_failAll(insertOk, userOk, salesOk) ==
  IF insertOk \/ userOk \/ salesOk THEN 200 ELSE 500

\* the status of the response at the end of the handler: res.json({ ok:true, ... })
FinalStatus(insertOk, userOk, salesOk) == 200

\* the handler's state when the step `step` starts
Enter(r, step) ==
  CASE step = "insert" -> [r EXCEPT !.pc = "insert", !.insAtt = @ + 1]
    [] step = "user" -> [r EXCEPT !.pc = "user", !.userAtt = @ + 1]
    [] step = "sales" -> [r EXCEPT !.pc = "sales", !.salesAtt = @ + 1]
    [] step = "done" -> Respond(r, FinalStatus(r.insOk, r.userOk, r.salesOk))

\* the synchronous part of the handler, from the request to its first await
\* (or to its response)
BookReceive(i, b) ==
  /\ phase = "listening"
  /\ req[i].pc = "idle"
  /\ \A j \in Reqs : j < i => req[j].pc # "idle"
  /\ LET r0 == [req[i] EXCEPT !.body = b]
         r1 == [r0 EXCEPT !.at = now]   \* `now` of a request that passes the de-dup check
         key == dedupKey(b)
     IN IF MissingRequired(b)
          THEN /\ req' = [req EXCEPT ![i] = Respond(r0, 400)]
               /\ UNCHANGED recentBookings
        ELSE IF Live(recentBookings, key, now)
          THEN /\ req' = [req EXCEPT ![i] = [Respond(r0, 200) EXCEPT !.dedup = TRUE]]
               /\ recentBookings' = DedupHit(recentBookings, key, now)
        ELSE /\ recentBookings' = SetEntry(recentBookings, key, now)
             /\ req' = [req EXCEPT ![i] =
                  IF EndThrows(b) THEN Respond(r1, 500)
                  ELSE IF pool THEN Enter(r1, "insert")
                  ELSE Enter(r1, AfterInsert(FALSE, transporter))]
  /\ UNCHANGED <<phase, pool, transporter, tableExists, columns, rows, schemaReady,
                 now, nextSweep, demo, migrations>>
  /\ UNCHANGED otherVars

\* the INSERT settles; the handler runs on to its next await
BookInsertDone(i, success) ==
  /\ req[i].pc = "insert"
  /\ success => CanInsert(INSERT_COLUMNS)
  /\ rows' = IF success THEN InsertRow(rows, BookRow(req[i].body, Len(rows) + 1)) ELSE rows
  /\ req' = [req EXCEPT ![i] =
       Enter([req[i] EXCEPT !.insOk = success], AfterInsert(success, transporter))]
  /\ UNCHANGED <<phase, pool, transporter, tableExists, columns, schemaReady,
                 now, nextSweep, recentBookings, demo, migrations>>
  /\ UNCHANGED otherVars

\* the confirmation email settles
BookUserMailDone(i, success) ==
  /\ req[i].pc = "user"
  /\ req' = [req EXCEPT ![i] =
       Enter([req[i] EXCEPT !.userOk = success], AfterUserMail(success))]
  /\ UNCHANGED <<phase, pool, transporter, tableExists, columns, rows, schemaReady,
                 now, nextSweep, recentBookings, demo, migrations>>
  /\ UNCHANGED otherVars

\* the sales email settles; the handler responds
BookSalesMailDone(i, success) ==
  /\ req[i].pc = "sales"
  /\ req' = [req EXCEPT ![i] = Enter([req[i] EXCEPT !.salesOk = success], "done")]
  /\ UNCHANGED <<phase, pool, transporter, tableExists, columns, rows, schemaReady,
                 now, nextSweep, recentBookings, demo, migrations>>
  /\ UNCHANGED otherVars

(* ---------------------------------------------------------------------- *)
(* Clock and sweep                                                         *)
(* ---------------------------------------------------------------------- *)
\* time passes; the interval timer fires when it is due
Tick(d) ==
  /\ phase = "listening"
  /\ now + d <= MaxNow
  /\ now + d <= nextSweep
  /\ now' = now + d
  /\ UNCHANGED <<phase, pool, transporter, tableExists, columns, rows, schemaReady,
                 nextSweep, recentBookings, req, demo, migrations>>
  /\ UNCHANGED otherVars

\* the setInterval callback
Sweep ==
  /\ phase = "listening"
  /\ now >= nextSweep
  /\ recentBookings' = SweepMap(recentBookings, now)
  /\ nextSweep' = nextSweep + SWEEP_INTERVAL
  /\ UNCHANGED <<phase, pool, transporter, tableExists, columns, rows, schemaReady,
                 now, req, demo, migrations>>
  /\ UNCHANGED otherVars

(* ---------------------------------------------------------------------- *)
(* Schema                                                                  *)
(* ---------------------------------------------------------------------- *)
\* async function ensureSchema(): nothing without a pool; a failed query is
\* logged; a successful one leaves the table as ensureSchemaColumns says
\* variant: the query's rejection is not caught
ensureSchemaThrows_uncaught(hasPool, reachable) == hasPool /\ ~reachable

\* whether ensureSchema rejects: the query runs inside try/catch, and without
\* a pool the function returns at once
ensureSchemaThrows(hasPool, reachable) == FALSE

ensureSchema(reachable) ==
  IF pool /\ reachable
    THEN /\ columns' = ensureSchemaColumns(tableExists, columns)
         /\ rows' = ensureSchemaRows(tableExists, rows)
         /\ tableExists' = TRUE
         /\ schemaReady' = TRUE
    ELSE UNCHANGED <<tableExists, columns, rows, schemaReady>>

\* bootstrap(): initDbPool, ensureSchema, app.listen; a rejection ends the
\* process (bootstrap().catch: process.exit(1))
Bootstrap(reachable) ==
  /\ phase = "boot"
  /\ ensureSchema(reachable)
  /\ phase' = IF ensureSchemaThrows(pool, reachable) THEN "exited" ELSE "listening"
  /\ UNCHANGED <<pool, transporter, now, nextSweep, recentBookings, req, demo,
                 migrations>>
  /\ UNCHANGED otherVars

\* app.post('/api/db-migrate'): 200 { ok:true, disabled: !pool }, or 500 from
\* the handler's catch
DbMigrate(reachable) ==
  /\ phase = "listening"
  /\ Len(migrations) < MaxMigrate
  /\ ensureSchema(reachable)
  /\ migrations' = Append(migrations,
       IF ensureSchemaThrows(pool, reachable) THEN 500 ELSE 200)
  /\ UNCHANGED <<phase, pool, transporter, now, nextSweep, recentBookings, req, demo>>
  /\ UNCHANGED otherVars

(* ---------------------------------------------------------------------- *)
(* POST /api/retell/book_demo (src/unnamed/part_000)                       *)
(* ---------------------------------------------------------------------- *)
S_PHONE == <<"5","5","5">>
D_lead == [name |-> S_ANN, email |-> S_EMAIL, phone |-> S_PHONE]
D_noPhone == [name |-> S_ANN, email |-> S_EMAIL]
DemoBodies == {D_lead, D_noPhone}

IdleDemo == [pc |-> "idle", body |-> <<>>, status |-> 0, insAtt |-> 0, salesAtt |-> 0,
             userAtt |-> 0, insOk |-> FALSE, salesOk |-> FALSE, userOk |-> FALSE]

\* const { name, email, phone, company = '', notes = '' } = req.body || {}
DemoField(b, k) == IF Has(b, k) THEN b[k] ELSE <<>>

\* if (!name || !email || !phone)
DemoMissing(b) ==
  DemoField(b, "name") = <<>> \/ DemoField(b, "email") = <<>> \/ DemoField(b, "phone") = <<>>

DemoRow(b, id) ==
  [id |-> id, full_name |-> DemoField(b, "name"), name |-> DemoField(b, "name"),
   email |-> DemoField(b, "email"), phone |-> DemoField(b, "phone"),
   company |-> DemoField(b, "company"), notes |-> DemoField(b, "notes"),
   source |-> <<"r","e","t","e","l","l","_","c","a","l","l">>]

\* both emails are sent inside one try block, the sales email first: when it
\* fails, the catch skips the confirmation email
DemoAfterSalesMail(salesOk) == IF salesOk THEN "user" ELSE "done"

DemoReceive(i, b) ==
  /\ phase = "listening"
  /\ demo[i].pc = "idle"
  /\ \A j \in Demos : j < i => demo[j].pc # "idle"
  /\ demo' = [demo EXCEPT ![i] =
       IF DemoMissing(b) THEN [@ EXCEPT !.pc = "done", !.body = b, !.status = 400]
       ELSE [@ EXCEPT !.pc = "insert", !.body = b, !.insAtt = @ + 1]]
  /\ UNCHANGED <<phase, pool, transporter, tableExists, columns, rows, schemaReady,
                 now, nextSweep, recentBookings, req, migrations>>
  /\ UNCHANGED otherVars

DemoInsertDone(i, success) ==
  /\ demo[i].pc = "insert"
  /\ success => CanInsert(DEMO_INSERT_COLUMNS)
  /\ rows' = IF success THEN InsertRow(rows, DemoRow(demo[i].body, Len(rows) + 1)) ELSE rows
  /\ demo' = [demo EXCEPT ![i] = [@ EXCEPT !.pc = "sales", !.insOk = success,
                                             !.salesAtt = @ + 1]]
  /\ UNCHANGED <<phase, pool, transporter, tableExists, columns, schemaReady,
                 now, nextSweep, recentBookings, req, migrations>>
  /\ UNCHANGED otherVars

DemoSalesMailDone(i, success) ==
  /\ demo[i].pc = "sales"
  /\ success => transporter
  /\ demo' = [demo EXCEPT ![i] =
       IF DemoAfterSalesMail(success) = "user"
         THEN [@ EXCEPT !.pc = "user", !.salesOk = success, !.userAtt = @ + 1]
         ELSE [@ EXCEPT !.pc = "done", !.salesOk = success, !.status = 200]]
  /\ UNCHANGED <<phase, pool, transporter, tableExists, columns, rows, schemaReady,
                 now, nextSweep, recentBookings, req, migrations>>
  /\ UNCHANGED otherVars

DemoUserMailDone(i, success) ==
  /\ demo[i].pc = "user"
  /\ demo' = [demo EXCEPT ![i] = [@ EXCEPT !.pc = "done", !.userOk = success, !.status = 200]]
  /\ UNCHANGED <<phase, pool, transporter, tableExists, columns, rows, schemaReady,
                 now, nextSweep, recentBookings, req, migrations>>
  /\ UNCHANGED otherVars

(* ---------------------------------------------------------------------- *)
(* Realtime client (public/sdk/openai-realtime.v1.js, second script):      *)
(* start(), stop(), auto-reconnect and keepalive.  A peer connection is    *)
(* named by its index in pcs; ICE and connection state have the same       *)
(* listeners' effect and are one field.                                    *)
(* ---------------------------------------------------------------------- *)
Voices == {"verse", "alloy"}

NoBuffers == [k \in {} |-> <<>>]

\* new RTCPeerConnection(...), before createDataChannel
NewPc == [closed |-> FALSE, remote |-> FALSE, state |-> "new", keep |-> "none",
          keepEv |-> FALSE, dc |-> "none", buffers |-> NoBuffers]

\* the page has loaded the script
ClientIdle ==
  /\ current = Null /\ lastOpts = Null /\ reconnectTimer = FALSE /\ pingTimer = Null
  /\ postedResponseIds = {} /\ timeouts = 0 /\ intervals = {}
  /\ pcs = <<>> /\ starts = <<>> /\ calls = <<>>
  /\ heard = <<>> /\ hookCalls = <<>> /\ posts = <<>>

\* dcKeep.close(), eventsDc.close(), pc.close() of stop(): the channels are
\* closed, and the close event of dcKeep is still to be delivered
ClosePc(p) ==
  [p EXCEPT !.closed = TRUE,
            !.keep = IF @ \in {"connecting", "open"} THEN "closed" ELSE @,
            !.keepEv = @ \/ p.keep \in {"connecting", "open"},
            !.dc = IF @ = "open" THEN "closed" ELSE @]

\* stop(): current?.pc?.close?.()
StopPcs(ps, cur) == IF cur = Null THEN ps ELSE [ps EXCEPT ![cur[1]] = ClosePc(@)]

\* stop(): if (reconnectTimer) clearTimeout(reconnectTimer)
StopTimeouts(n, rt) == IF rt THEN n - 1 ELSE n

\* if (pingTimer) clearInterval(pingTimer)
ClearPing(iv, pt) == IF pt # Null THEN iv \ {pt[1]} ELSE iv

\* scheduleReconnect: if (reconnectTimer) return
Schedules(rt) == ~rt

\* function stop()
stop ==
  /\ timeouts' = StopTimeouts(timeouts, reconnectTimer)
  /\ reconnectTimer' = FALSE
  /\ intervals' = ClearPing(intervals, pingTimer)
  /\ pingTimer' = Null
  /\ pcs' = StopPcs(pcs, current)
  /\ current' = Null

\* the synchronous part of start(opts), called by `by`: lastOpts, stop() if
\* there is a current session, and the session request is sent
BeginStart(by, opts) ==
  /\ lastOpts' = <<opts>>
  /\ starts' = Append(starts, [by |-> by, opts |-> opts, at |-> "session", pc |-> 0])

\* the page calls OpenAIRealtime.start(opts)
UserStart(opts) ==
  /\ Len(calls) < MaxCalls /\ Len(starts) < MaxStarts
  /\ calls' = Append(calls, "start")
  /\ BeginStart("user", opts)
  /\ IF current # Null THEN stop
     ELSE UNCHANGED <<timeouts, reconnectTimer, intervals, pingTimer, pcs, current>>
  /\ UNCHANGED <<bookVars, call, proxyVars, capVars>>

\* the page calls OpenAIRealtime.stop()
UserStop ==
  /\ Len(calls) < MaxCalls
  /\ calls' = Append(calls, "stop")
  /\ stop
  /\ UNCHANGED <<lastOpts, starts>>
  /\ UNCHANGED <<bookVars, call, proxyVars, capVars>>

\* the setTimeout callback of scheduleReconnect: reconnectTimer = null,
\* stop(), and start(lastOpts) if there are options
TimerFires ==
  /\ timeouts > 0 /\ Len(starts) < MaxStarts
  /\ timeouts' = timeouts - 1
  /\ reconnectTimer' = FALSE
  /\ intervals' = ClearPing(intervals, pingTimer)
  /\ pingTimer' = Null
  /\ pcs' = StopPcs(pcs, current)
  /\ current' = Null
  /\ IF lastOpts # Null THEN BeginStart("timer", lastOpts[1])
     ELSE UNCHANGED <<lastOpts, starts>>
  /\ UNCHANGED calls
  /\ UNCHANGED <<bookVars, call, proxyVars, capVars>>

\* await fetch('/api/openai/realtime-session') and its json() settle: the
\* peer connection is created and its listeners are added, or start() throws
StartSessionDone(s, ok) ==
  /\ s \in 1..Len(starts) /\ starts[s].at = "session"
  /\ IF ok THEN /\ pcs' = Append(pcs, NewPc)
                /\ starts' = [starts EXCEPT ![s].at = "mic", ![s].pc = Len(pcs) + 1]
     ELSE /\ starts' = [starts EXCEPT ![s].at = "failed"]
          /\ UNCHANGED pcs
  /\ UNCHANGED <<current, lastOpts, reconnectTimer, pingTimer, timeouts, intervals, calls>>
  /\ UNCHANGED <<bookVars, call, proxyVars, capVars>>

\* await getUserMedia settles: the tracks are added and dcKeep is created,
\* or start() throws
StartMicDone(s, ok) ==
  /\ s \in 1..Len(starts) /\ starts[s].at = "mic"
  /\ IF ok THEN /\ pcs' = [pcs EXCEPT ![starts[s].pc].keep = "connecting"]
                /\ starts' = [starts EXCEPT ![s].at = "sdp"]
     ELSE /\ starts' = [starts EXCEPT ![s].at = "failed"]
          /\ UNCHANGED pcs
  /\ UNCHANGED <<current, lastOpts, reconnectTimer, pingTimer, timeouts, intervals, calls>>
  /\ UNCHANGED <<bookVars, call, proxyVars, capVars>>

\* the awaits of the SDP exchange (createOffer, setLocalDescription, fetch,
\* text, setRemoteDescription) settle: current = { pc, ... }, or start() throws
StartSdpDone(s, ok) ==
  /\ s \in 1..Len(starts) /\ starts[s].at = "sdp"
  /\ IF ok THEN /\ pcs' = [pcs EXCEPT ![starts[s].pc].remote = TRUE]
                /\ starts' = [starts EXCEPT ![s].at = "done"]
                /\ current' = <<starts[s].pc>>
     ELSE /\ starts' = [starts EXCEPT ![s].at = "failed"]
          /\ UNCHANGED <<pcs, current>>
  /\ UNCHANGED <<lastOpts, reconnectTimer, pingTimer, timeouts, intervals, calls>>
  /\ UNCHANGED <<bookVars, call, proxyVars, capVars>>

\* the connection is established
PcConnects(p) ==
  /\ p \in 1..Len(pcs) /\ ~pcs[p].closed /\ pcs[p].remote /\ pcs[p].state = "new"
  /\ pcs' = [pcs EXCEPT ![p].state = "connected"]
  /\ UNCHANGED <<current, lastOpts, reconnectTimer, pingTimer, timeouts, intervals,
                 starts, calls>>
  /\ UNCHANGED <<bookVars, call, proxyVars, capVars>>

\* iceconnectionstatechange / connectionstatechange to failed or
\* disconnected: scheduleReconnect
PcFails(p, st) ==
  /\ p \in 1..Len(pcs) /\ ~pcs[p].closed /\ pcs[p].remote
  /\ \/ st = "disconnected" /\ pcs[p].state = "connected"
     \/ st = "failed" /\ pcs[p].state \in {"new", "connected", "disconnected"}
  /\ pcs' = [pcs EXCEPT ![p].state = st]
  /\ IF Schedules(reconnectTimer)
       THEN timeouts' = timeouts + 1 /\ reconnectTimer' = TRUE
       ELSE UNCHANGED <<timeouts, reconnectTimer>>
  /\ UNCHANGED <<current, lastOpts, pingTimer, intervals, starts, calls>>
  /\ UNCHANGED <<bookVars, call, proxyVars, capVars>>

\* dcKeep.onopen: if (pingTimer) clearInterval(pingTimer); pingTimer = setInterval(...)
PingAfterOpen(iv, pt, p) == ClearPing(iv, pt) \cup {p}

\* the keepalive channel of p opens
KeepOpens(p) ==
  /\ p \in 1..Len(pcs) /\ ~pcs[p].closed /\ pcs[p].state = "connected"
  /\ pcs[p].keep = "connecting"
  /\ pcs' = [pcs EXCEPT ![p].keep = "open"]
  /\ intervals' = PingAfterOpen(intervals, pingTimer, p)
  /\ pingTimer' = <<p>>
  /\ UNCHANGED <<current, lastOpts, reconnectTimer, timeouts, starts, calls>>
  /\ UNCHANGED <<bookVars, call, proxyVars, capVars>>

\* the keepalive channel of a failed connection closes with its transport
KeepLost(p) ==
  /\ p \in 1..Len(pcs) /\ ~pcs[p].closed /\ pcs[p].state = "failed"
  /\ pcs[p].keep = "open"
  /\ pcs' = [pcs EXCEPT ![p].keep = "closed", ![p].keepEv = TRUE]
  /\ UNCHANGED <<current, lastOpts, reconnectTimer, pingTimer, timeouts, intervals,
                 starts, calls>>
  /\ UNCHANGED <<bookVars, call, proxyVars, capVars>>

\* dcKeep.onclose: if (pingTimer) { clearInterval(pingTimer); pingTimer = null; }
KeepCloseEvent(p) ==
  /\ p \in 1..Len(pcs) /\ pcs[p].keepEv
  /\ pcs' = [pcs EXCEPT ![p].keepEv = FALSE]
  /\ intervals' = ClearPing(intervals, pingTimer)
  /\ pingTimer' = Null
  /\ UNCHANGED <<current, lastOpts, reconnectTimer, timeouts, starts, calls>>
  /\ UNCHANGED <<bookVars, call, proxyVars, capVars>>

\* start(), stop(), the timers and the connections' events
RtcNext ==
  \/ \E v \in Voices : UserStart(v)
  \/ UserStop
  \/ TimerFires
  \/ \E s \in 1..MaxStarts, ok \in BOOLEAN : StartSessionDone(s, ok)
  \/ \E s \in 1..MaxStarts, ok \in BOOLEAN : StartMicDone(s, ok)
  \/ \E s \in 1..MaxStarts, ok \in BOOLEAN : StartSdpDone(s, ok)
  \/ \E p \in 1..MaxStarts : PcConnects(p)
  \/ \E p \in 1..MaxStarts, st \in {"failed", "disconnected"} : PcFails(p, st)
  \/ \E p \in 1..MaxStarts : KeepOpens(p)
  \/ \E p \in 1..MaxStarts : KeepLost(p)
  \/ \E p \in 1..MaxStarts : KeepCloseEvent(p)

(* ---------------------------------------------------------------------- *)
(* Vendor-asset proxies (src/unnamed/part_000, src/unnamed/part_002)       *)
(* ---------------------------------------------------------------------- *)
RETELL_MIN == 50000     \* buf.length > 50_000, js.length < 50_000
SDK_MIN == 10000        \* buf.length < 10000
VENDOR_MIN == 5000      \* buf.length < 5000, text.length < 5000

\* the four routes: where the copy is kept, how many CDN URLs there are, the
\* minimum size, whether a cached copy of exactly that size is served,
\* whether the content heuristic applies to a fetched body, whether `fresh`
\* bypasses the cache, whether a stale copy is tried when every URL has
\* failed, and the response when nothing can be served
\* app.get('/vendor/retell-web-sdk.umd.js') of part_000
VendorRetell ==
  [route |-> "/vendor/retell-web-sdk.umd.js", store |-> "disk", nsrc |-> 3,
   min |-> RETELL_MIN, cacheAtMin |-> FALSE, heuristic |-> FALSE, bypass |-> TRUE,
   stale |-> TRUE, failStatus |-> 200, failKind |-> "stub"]
\* app.get('/sdk/retell.v1.js') of part_000
SdkRetell ==
  [route |-> "/sdk/retell.v1.js", store |-> "memory", nsrc |-> 3,
   min |-> SDK_MIN, cacheAtMin |-> TRUE, heuristic |-> FALSE, bypass |-> FALSE,
   stale |-> FALSE, failStatus |-> 502, failKind |-> "comment"]
\* app.get('/vendor/livekit-client-1.18.3.umd.js') of part_002
VendorLiveKit ==
  [route |-> "/vendor/livekit-client-1.18.3.umd.js", store |-> "disk", nsrc |-> 2,
   min |-> VENDOR_MIN, cacheAtMin |-> TRUE, heuristic |-> TRUE, bypass |-> FALSE,
   stale |-> FALSE, failStatus |-> 503, failKind |-> "stub"]
\* app.get('/sdk/retell.v1.js') of part_002 (the shim is appended to what it serves)
SdkRetellShim ==
  [route |-> "/sdk/retell.v1.js+shim", store |-> "disk", nsrc |-> 2,
   min |-> VENDOR_MIN, cacheAtMin |-> TRUE, heuristic |-> TRUE, bypass |-> FALSE,
   stale |-> FALSE, failStatus |-> 503, failKind |-> "stub"]
Proxies == {VendorRetell, SdkRetell, VendorLiveKit, SdkRetellShim}

VReqs == 1..MaxVReq
IdleVReq == [pc |-> "idle", fresh |-> FALSE, idx |-> 0, log |-> <<>>, pending |-> Null,
             status |-> 0, kind |-> "none", body |-> Null]

\* no vendor asset is being served
ProxyIdle ==
  /\ proxy = VendorRetell /\ disk = Null /\ diskWritable = TRUE /\ sdkCache = Null
  /\ vreq = [i \in VReqs |-> IdleVReq]

\* a body: its size, whether it matches the content heuristic
\* (/LiveKit|Room|connect/i, /Retell|WebClient|createCall|startCall/i), and
\* the CDN URL it came from (0: it was deployed with the site)
Sizes(p) == {p.min - 1, p.min, p.min + 1}
DiskFiles(p) == {Null} \cup {<<[size |-> s, marker |-> TRUE, src |-> 0]>> : s \in Sizes(p)}
\* what a fetch can give: a failure (exception or !r.ok), or a body
FetchOutcomes(p, k) ==
  {Null, <<[size |-> p.min - 1, marker |-> TRUE, src |-> k]>>,
         <<[size |-> p.min + 1, marker |-> TRUE, src |-> k]>>}
    \cup (IF p.heuristic THEN {<<[size |-> p.min + 1, marker |-> FALSE, src |-> k]>>} ELSE {})

\* variant: the comparison is the other way round
DiskCopyValid_inverted(p, file) == file # Null /\ file[1].size < p.min

\* the local copy is served: the file can be read and is large enough
DiskCopyValid(p, file) ==
  file # Null /\ IF p.cacheAtMin THEN file[1].size >= p.min ELSE file[1].size > p.min

\* sdkCache && (Date.now() - sdkCacheTime) < SDK_TTL_MS
MemoryCopyValid(cache, t) == cache # Null /\ (t - cache[1].time) < SDK_TTL_HOURS * 3600

\* a fetched body passes the size check and, where there is one, the content
\* heuristic
FetchedValid(p, body) == body[1].size >= p.min /\ (p.heuristic => body[1].marker)

VRespond(r, st, kind, body) ==
  [r EXCEPT !.pc = "done", !.status = st, !.kind = kind, !.body = body, !.pending = Null]

\* the candidate r.idx has failed: the next URL, or what follows the loop
VAdvance(p, r) ==
  IF r.idx < p.nsrc THEN [r EXCEPT !.pc = "fetch", !.idx = @ + 1, !.pending = Null]
  ELSE IF p.stale THEN [r EXCEPT !.pc = "stale", !.pending = Null]
  ELSE VRespond(r, p.failStatus, p.failKind, Null)

\* the handler up to its first await
VReceive(i, fresh) ==
  /\ vreq[i].pc = "idle"
  /\ \A j \in VReqs : j < i => vreq[j].pc # "idle"
  /\ Cardinality({j \in VReqs : vreq[j].pc \notin {"idle", "done"}}) < MaxInFlight
  /\ LET r == [vreq[i] EXCEPT !.fresh = fresh]
     IN vreq' = [vreq EXCEPT ![i] =
          IF proxy.store = "memory"
            THEN IF MemoryCopyValid(sdkCache, now)
                   THEN VRespond(r, 200, "asset", <<sdkCache[1].buf>>)
                   ELSE [r EXCEPT !.pc = "fetch", !.idx = 1]
          ELSE IF proxy.bypass /\ fresh THEN [r EXCEPT !.pc = "fetch", !.idx = 1]
          ELSE [r EXCEPT !.pc = "read"]]
  /\ UNCHANGED <<bookVars, clientVars, call, proxy, disk, diskWritable, sdkCache>>

\* fs.readFile of the local copy settles
VReadDone(i) ==
  /\ vreq[i].pc = "read"
  /\ vreq' = [vreq EXCEPT ![i] =
       IF DiskCopyValid(proxy, disk) THEN VRespond(@, 200, "asset", disk)
       ELSE [@ EXCEPT !.pc = "fetch", !.idx = 1]]
  /\ UNCHANGED <<bookVars, clientVars, call, proxy, disk, diskWritable, sdkCache>>

\* fetch(url) and the reading of its body settle
VFetchDone(i, got) ==
  /\ vreq[i].pc = "fetch"
  /\ LET r == [vreq[i] EXCEPT !.log = Append(@, got)]
         good == got # Null /\ FetchedValid(proxy, got)
     IN /\ vreq' = [vreq EXCEPT ![i] =
             IF ~good THEN VAdvance(proxy, r)
             ELSE IF proxy.store = "memory" THEN VRespond(r, 200, "asset", got)
             ELSE [r EXCEPT !.pc = "write", !.pending = got]]
        /\ sdkCache' = IF good /\ proxy.store = "memory"
                         THEN <<[buf |-> got[1], time |-> now]>> ELSE sdkCache
  /\ UNCHANGED <<bookVars, clientVars, call, proxy, disk, diskWritable>>

\* fs.mkdir and fs.writeFile settle; a rejection is caught like a failed fetch
VWriteDone(i) ==
  /\ vreq[i].pc = "write"
  /\ disk' = IF diskWritable THEN vreq[i].pending ELSE disk
  /\ vreq' = [vreq EXCEPT ![i] =
       IF diskWritable THEN VRespond(@, 200, "asset", @.pending) ELSE VAdvance(proxy, @)]
  /\ UNCHANGED <<bookVars, clientVars, call, proxy, diskWritable, sdkCache>>

\* every URL has failed: fs.readFile of whatever is on disk settles
VStaleDone(i) ==
  /\ vreq[i].pc = "stale"
  /\ vreq' = [vreq EXCEPT ![i] =
       IF disk # Null THEN VRespond(@, 200, "stale", disk)
       ELSE VRespond(@, 200, "stub", Null)]
  /\ UNCHANGED <<bookVars, clientVars, call, proxy, disk, diskWritable, sdkCache>>

\* twelve hours pass
VTick ==
  /\ now + 12 * 3600 <= MaxHalfDays * 12 * 3600
  /\ now' = now + 12 * 3600
  /\ UNCHANGED <<phase, pool, transporter, tableExists, columns, rows, schemaReady,
                 nextSweep, recentBookings, req, demo, migrations, call, proxyVars, clientVars>>

\* one route of one revision, with the local copy it was deployed with
ProxyInit ==
  /\ phase = "listening" /\ pool = FALSE /\ transporter = FALSE
  /\ tableExists = FALSE /\ columns = {} /\ rows = <<>> /\ schemaReady = FALSE
  /\ now = 0 /\ nextSweep = SWEEP_INTERVAL /\ recentBookings = EmptyMap
  /\ req = [i \in Reqs |-> IdleReq] /\ demo = [i \in Demos |-> IdleDemo]
  /\ migrations = <<>> /\ call = NoCall
  /\ proxy \in Proxies
  /\ disk \in IF proxy.store = "disk" THEN DiskFiles(proxy) ELSE {Null}
  /\ diskWritable \in BOOLEAN
  /\ sdkCache = Null
  /\ vreq = [i \in VReqs |-> IdleVReq]
  /\ ClientIdle

ProxyNext ==
  \/ \E i \in VReqs, fresh \in BOOLEAN : VReceive(i, fresh)
  \/ \E i \in VReqs : VReadDone(i)
  \/ \E i \in VReqs : \E got \in FetchOutcomes(proxy, vreq[i].idx) : VFetchDone(i, got)
  \/ \E i \in VReqs : VWriteDone(i)
  \/ \E i \in VReqs : VStaleDone(i)
  \/ VTick

(* ---------------------------------------------------------------------- *)
(* Specification                                                           *)
(* ---------------------------------------------------------------------- *)
\* the process has been constructed: the environment decided whether there is
\* a database pool and a mail transporter; the database holds no bookings
\* table, the narrow table of the oldest revision (with a row), or the full one
Constructed ==
  /\ phase = "boot"
  /\ pool \in BOOLEAN
  /\ transporter \in BOOLEAN
  /\ \/ tableExists = FALSE /\ columns = {} /\ rows = <<>>
     \/ pool /\ tableExists = TRUE /\ columns = NARROW_COLUMNS /\ rows = <<LegacyRow>>
     \/ pool /\ tableExists = TRUE /\ columns = FULL_COLUMNS /\ rows = <<>>
  /\ schemaReady = FALSE
  /\ now = 0
  /\ nextSweep = SWEEP_INTERVAL
  /\ recentBookings = EmptyMap
  /\ req = [i \in Reqs |-> IdleReq]
  /\ demo = [i \in Demos |-> IdleDemo]
  /\ migrations = <<>>

Init == Constructed /\ call = NoCall /\ ProxyIdle /\ ClientIdle

\* the booking pipeline: POST /api/book, the clock and the sweep
Next ==
  \/ \E ok \in BOOLEAN : Bootstrap(ok)
  \/ \E i \in Reqs, b \in Bodies : BookReceive(i, b)
  \/ \E i \in Reqs, ok \in BOOLEAN : BookInsertDone(i, ok)
  \/ \E i \in Reqs, ok \in BOOLEAN : BookUserMailDone(i, ok)
  \/ \E i \in Reqs, ok \in BOOLEAN : BookSalesMailDone(i, ok)
  \/ \E d \in TickSteps : Tick(d)
  \/ Sweep

Spec == Init /\ [][Next]_vars

\* every operation that reaches the database: bootstrap, /api/db-migrate,
\* one booking (complete or not) and the book_demo webhook, next to the sweep
DbBodies == {B_form, B_noEmail}
DbReqs == {1}
DbNext ==
  \/ \E ok \in BOOLEAN : Bootstrap(ok)
  \/ \E ok \in BOOLEAN : DbMigrate(ok)
  \/ \E i \in DbReqs, b \in DbBodies : BookReceive(i, b)
  \/ \E i \in DbReqs, ok \in BOOLEAN : BookInsertDone(i, ok)
  \/ \E i \in DbReqs, ok \in BOOLEAN : BookUserMailDone(i, ok)
  \/ \E i \in DbReqs, ok \in BOOLEAN : BookSalesMailDone(i, ok)
  \/ \E d \in TickSteps : Tick(d)
  \/ Sweep
  \/ \E i \in Demos, b \in DemoBodies : DemoReceive(i, b)
  \/ \E i \in Demos, ok \in BOOLEAN : DemoInsertDone(i, ok)
  \/ \E i \in Demos, ok \in BOOLEAN : DemoSalesMailDone(i, ok)
  \/ \E i \in Demos, ok \in BOOLEAN : DemoUserMailDone(i, ok)

DbSpec == Init /\ [][DbNext]_vars

(* ---------------------------------------------------------------------- *)
(* Properties                                                              *)
(* ---------------------------------------------------------------------- *)
Blank(v) == \A k \in 1..Len(v) : v[k] \in WS
Present(b, keys) == \E k \in keys : k \in DOMAIN b /\ ~Blank(b[k])
\* the submission has a full name, an email, a date and a time
Complete(b) ==
  /\ Present(b, {"fullName", "full_name", "name"})
  /\ Present(b, {"email", "mail"})
  /\ Present(b, {"date"})
  /\ Present(b, {"time"})
\* the (email, date, time, time zone) tuple of a submission
Tuple(b) == <<F_email(b), F_date(b), F_time(b), F_timeZone(b)>>
\* request i arrives in this step
Arrives(i) == req[i].pc = "idle" /\ req'[i].pc # "idle"
NoEffects(r) == r.insAtt = 0 /\ r.userAtt = 0 /\ r.salesAtt = 0
\* a complete submission that was not short-circuited as a duplicate
Passed(r) == r.pc # "idle" /\ Complete(r.body) /\ ~r.dedup
InFlight(r) == r.pc \in {"insert", "user", "sales"}
Finished(r) == r.pc = "done"

\* C1: a submission with a required field (full name, email, date, time)
\* missing or blank is answered 400 (ok:false) at once, attempts no insert,
\* sends no email, and leaves the table and the de-dup map as they were
C1_MissingFieldsRejected ==
  [][\A i \in Reqs :
       /\ (Arrives(i) /\ ~Complete(req'[i].body))
            => rows' = rows /\ recentBookings' = recentBookings
       /\ (req'[i].pc # "idle" /\ ~Complete(req'[i].body))
            => Finished(req'[i]) /\ req'[i].status = 400 /\ NoEffects(req'[i])]_vars

C1_Witness ==
  \E i, j \in Reqs :
    /\ Finished(req[i]) /\ req[i].body = B_noTime /\ req[i].status = 400
    /\ Finished(req[j]) /\ req[j].body = B_noName /\ req[j].status = 400

\* C2: a complete submission that arrives less than DEDUP_SECONDS after a
\* submission with the same (email, date, time, zone) tuple passed the check
\* is answered with success as a duplicate, attempts no insert and no email
C2_DuplicateShortCircuits ==
  [][\A i \in Reqs :
       (/\ Arrives(i)
        /\ Complete(req'[i].body)
        /\ \E j \in Reqs \ {i} : /\ Passed(req[j])
                                 /\ Tuple(req[j].body) = Tuple(req'[i].body)
                                 /\ now < req[j].at + DEDUP_SECONDS)
       => /\ req'[i].dedup /\ Finished(req'[i]) /\ req'[i].status = 200
          /\ NoEffects(req'[i])
          /\ rows' = rows]_vars

C2_Witness ==
  \E i, j \in Reqs :
    /\ Passed(req[i]) /\ req[i].body = B_form
    /\ req[j].dedup /\ req[j].body = B_alias /\ req[j].status = 200 /\ NoEffects(req[j])
    /\ now > req[i].at

C4_SideEffectsIndependent ==
  \A i \in Reqs :
    (/\ Finished(req[i])
     /\ \/ req[i].insAtt > 0 /\ ~req[i].insOk
        \/ req[i].userAtt > 0 /\ ~req[i].userOk
        \/ req[i].salesAtt > 0 /\ ~req[i].salesOk)
    => /\ req[i].status = 200
       /\ transporter => req[i].userAtt = 1 /\ req[i].salesAtt = 1
       /\ pool => req[i].insAtt = 1

C4_Witness ==
  \E i \in Reqs :
    /\ Finished(req[i]) /\ req[i].status = 200
    /\ req[i].insAtt = 1 /\ ~req[i].insOk
    /\ req[i].userAtt = 1 /\ ~req[i].userOk
    /\ req[i].salesAtt = 1 /\ ~req[i].salesOk

\* C5 as stated: of the requests with one key that are being handled at the
\* same time, at most one has passed the de-dup check
C5_OnePassesAmongConcurrent ==
  \A i, j \in Reqs :
    (i # j /\ InFlight(req[i]) /\ InFlight(req[j]) /\ Passed(req[i]) /\ Passed(req[j]))
      => Tuple(req[i].body) # Tuple(req[j].body)

\* C5 amended: two requests with one key that both passed the de-dup check
\* arrived at least DEDUP_SECONDS apart
C5_OnePassesPerWindow ==
  \A i, j \in Reqs :
    (i # j /\ Passed(req[i]) /\ Passed(req[j])
       /\ Tuple(req[i].body) = Tuple(req[j].body) /\ req[i].at <= req[j].at)
      => req[j].at - req[i].at >= DEDUP_SECONDS

C5_Witness ==
  \E i, j \in Reqs :
    /\ i # j /\ Passed(req[i]) /\ InFlight(req[i])
    /\ Passed(req[j]) /\ Tuple(req[i].body) = Tuple(req[j].body)
    /\ req[j].at >= req[i].at + DEDUP_SECONDS

\* C6: a complete submission whose key has no entry, or an entry that expires
\* at or before now, is not short-circuited: it sets the key's expiry to
\* now + DEDUP_SECONDS and goes on to the insert, or without a pool to the
\* emails (unless the outer catch answers 500); so a tuple submitted again
\* once DEDUP_SECONDS have passed since it last passed is never a duplicate
C6_ExpiredOrAbsentIsNew ==
  [][\A i \in Reqs :
       (Arrives(i) /\ Complete(req'[i].body)) =>
         LET b == req'[i].body
             key == dedupKey(b)
             isNew ==
               /\ ~req'[i].dedup
               /\ key \in DOMAIN recentBookings'
               /\ recentBookings'[key] = now + DEDUP_SECONDS
               /\ req'[i].status # 500 =>
                    IF pool THEN req'[i].pc = "insert" /\ req'[i].insAtt = 1
                    ELSE IF transporter THEN req'[i].pc = "user" /\ req'[i].userAtt = 1
                    ELSE req'[i].status = 200
         IN /\ (key \notin DOMAIN recentBookings \/ recentBookings[key] <= now) => isNew
            /\ (\A j \in Reqs \ {i} :
                  (Passed(req[j]) /\ Tuple(req[j].body) = Tuple(b))
                    => req[j].at + DEDUP_SECONDS <= now) => isNew]_vars

C6_Witness ==
  \E i, j \in Reqs :
    /\ Passed(req[i]) /\ Passed(req[j]) /\ req[i].body = B_form /\ req[j].body = B_form
    /\ req[j].at = req[i].at + DEDUP_SECONDS
    /\ req[j].insAtt + req[j].userAtt > 0
    /\ recentBookings[dedupKey(B_form)] = req[j].at + DEDUP_SECONDS

\* C7: a sweep removes exactly the entries that expire at or before the sweep
\* time; hence no entry stays in the map for a sweep interval past its
\* expiry, and the map is empty once a sweep interval has passed since the
\* last expiry
C7_SweepRemovesExpired ==
  [][/\ nextSweep' # nextSweep =>
          recentBookings' = [k \in {j \in DOMAIN recentBookings : recentBookings[j] > now}
                               |-> recentBookings[k]]
     /\ \A k \in DOMAIN recentBookings' : now' < recentBookings'[k] + SWEEP_INTERVAL]_vars

C7_Witness ==
  /\ dedupKey(B_form) \notin DOMAIN recentBookings
  /\ \E i \in Reqs : Passed(req[i]) /\ req[i].body = B_form
  /\ dedupKey(B_noTz) \in DOMAIN recentBookings
  /\ recentBookings[dedupKey(B_noTz)] > now

\* C8 as stated: a complete, non-duplicate submission whose insert did not
\* succeed and whose emails were both not sent is answered with 500
C8_FailureReported ==
  \A i \in Reqs :
    (Finished(req[i]) /\ Passed(req[i])
       /\ ~req[i].insOk /\ ~req[i].userOk /\ ~req[i].salesOk)
      => req[i].status = 500

\* C8 amended: a complete, non-duplicate submission is answered with success
\* whatever became of the insert and the emails; it is answered with 500
\* only when the end instant cannot be computed, and then nothing was
\* attempted
C8_SuccessUnlessException ==
  \A i \in Reqs :
    (Finished(req[i]) /\ Passed(req[i])) =>
      /\ req[i].status \in {200, 500}
      /\ req[i].status = 500 <=> (startISO(req[i].body) # Null
                                   /\ F_duration(req[i].body).kind = "big")
      /\ req[i].status = 500 => NoEffects(req[i])

C8_Witness ==
  \E i, j \in Reqs :
    /\ Finished(req[i]) /\ Passed(req[i]) /\ req[i].status = 200
    /\ req[i].insAtt = 1 /\ req[i].userAtt = 1 /\ req[i].salesAtt = 1
    /\ ~req[i].insOk /\ ~req[i].userOk /\ ~req[i].salesOk
    /\ Finished(req[j]) /\ Passed(req[j]) /\ req[j].status = 500

\* C9: no step updates or deletes a row of the bookings table: the rows of
\* before are the first rows of after, with their values
C9_AppendOnly ==
  [][/\ Len(rows') >= Len(rows)
     /\ \A k \in 1..Len(rows) : rows'[k] = rows[k]]_vars

C9_Witness ==
  /\ Len(rows) >= 2
  /\ migrations # <<>> /\ schemaReady
  /\ nextSweep > SWEEP_INTERVAL
  /\ \E i \in Demos : demo[i].insOk

\* C10: once ensureSchema has run successfully, the bookings table exists and
\* has every column the booking INSERT writes
C10_SchemaHasInsertColumns ==
  schemaReady => tableExists /\ INSERT_COLUMNS \subseteq columns

\* a step in which ensureSchema has run: bootstrap, or a /api/db-migrate request
SchemaRuns == (phase = "boot" /\ phase' # "boot") \/ Len(migrations') > Len(migrations)

\* C11: a run of ensureSchema on a table that already has the full schema, or
\* after an earlier successful run, leaves the table, its columns and its rows
\* as they were; no run rejects to its caller, with or without a pool and
\* whether or not the database is reachable: bootstrap goes on to listen and
\* /api/db-migrate answers 200
C11_SchemaEnsureIdempotent ==
  [][SchemaRuns =>
       /\ phase' = "listening"
       /\ Len(migrations') > Len(migrations) => migrations'[Len(migrations')] = 200
       /\ (schemaReady \/ (tableExists /\ columns = FULL_COLUMNS)) =>
            UNCHANGED <<tableExists, columns, rows>>]_vars

\* ensureSchema has run a second time, successfully, on the full table with
\* a booking in it
C11_Witness ==
  /\ migrations = <<200>> /\ schemaReady
  /\ pool /\ tableExists /\ columns = FULL_COLUMNS
  /\ rows # <<>>

(* ---------------------------------------------------------------------- *)
(* The utility functions on their own                                      *)
(* ---------------------------------------------------------------------- *)
\* the booking pipeline at rest
Quiet ==
  /\ phase = "boot" /\ pool = FALSE /\ transporter = FALSE
  /\ tableExists = FALSE /\ columns = {} /\ rows = <<>> /\ schemaReady = FALSE
  /\ now = 0 /\ nextSweep = SWEEP_INTERVAL /\ recentBookings = EmptyMap
  /\ req = [i \in Reqs |-> IdleReq] /\ demo = [i \in Demos |-> IdleDemo]
  /\ migrations = <<>>

\* arguments of zonedToUtcISO: dates and times in and out of the YYYY-MM-DD
\* and HH:MM shapes, known, unknown and empty zones
TZ_UNKNOWN == <<"M","a","r","s","/","P","h","o","b","o","s">>
D_WINTER == <<"2","0","2","4","-","0","1","-","1","5">>
D_SPRING == <<"2","0","2","4","-","0","3","-","1","0">>      \* US daylight saving time starts
D_AUTUMN == <<"2","0","2","4","-","1","1","-","0","3">>      \* US daylight saving time ends
D_TRAILING == <<"2","0","2","4","-","0","7","-">>    \* no day after the second dash
D_YEAR == <<"2","0","2","4">>        \* a year only
D_SLASHES == <<"0","7","/","0","4","/","2","0","2","4">>
D_ROLLOVER == <<"2","0","2","4","-","1","3","-","4","5">>    \* month 13, day 45
D_WORD == <<"s","o","o","n">>
T_EARLY == <<"0","1",":","3","0">>
T_LATE == <<"2","3",":","5","9">>
T_HOUR == <<"1","4">>        \* no minutes
T_WORD == <<"2","p","m">>
T_COLON == <<":">>       \* neither hours nor minutes
ZonedDates == {S_DATE, D_WINTER, D_SPRING, D_AUTUMN, D_TRAILING, D_YEAR, D_SLASHES,
               D_ROLLOVER, D_WORD, <<>>}
ZonedTimes == {S_TIME, T_EARLY, T_LATE, T_HOUR, T_WORD, T_COLON, <<>>}
ZonedZones == {TZ_UTC, TZ_NEW_YORK, TZ_KOLKATA, TZ_UNKNOWN, <<>>}

ZonedInit ==
  /\ Quiet /\ ProxyIdle /\ ClientIdle
  /\ call \in {[fn |-> "zonedToUtcISO", pc |-> "called", dateStr |-> d, timeStr |-> t,
                tz |-> z, out |-> Null] : d \in ZonedDates, t \in ZonedTimes, z \in ZonedZones}

\* the call returns
ZonedReturn ==
  /\ call.fn = "zonedToUtcISO" /\ call.pc = "called"
  /\ call' = [call EXCEPT !.pc = "returned",
                          !.out = zonedToUtcISO(call.dateStr, call.timeStr, call.tz)]
  /\ UNCHANGED <<bookVars, proxyVars, clientVars>>

ZonedNext == ZonedReturn

ZonedSpec == ZonedInit /\ [][ZonedNext]_vars

\* YYYY-MM-DD with a month of 01..12 and a day of 01..31
IsDate(s) ==
  /\ Len(s) = 10 /\ s[5] = "-" /\ s[8] = "-"
  /\ \A k \in {1, 2, 3, 4, 6, 7, 9, 10} : s[k] \in Digits
  /\ DecVal(SubSeq(s, 6, 7)) \in 1..12 /\ DecVal(SubSeq(s, 9, 10)) \in 1..31
\* HH:MM with 00..23 hours and 00..59 minutes
IsTime(s) ==
  /\ Len(s) = 5 /\ s[3] = ":"
  /\ \A k \in {1, 2, 4, 5} : s[k] \in Digits
  /\ DecVal(SubSeq(s, 1, 2)) \in 0..23 /\ DecVal(SubSeq(s, 4, 5)) \in 0..59
\* the date and time read as a UTC timestamp
NaiveString(d, t) == d \o <<"T">> \o t \o <<":","0","0",".","0","0","0","Z">>
\* the UTC offsets of the year 2024, in minutes: New York is on daylight time
\* (UTC-4) from 2024-03-10 07:00 UTC to 2024-11-03 06:00 UTC, else UTC-5;
\* Kolkata is UTC+5:30
OffsetIn2024(tz, instant) ==
  IF tz = TZ_NEW_YORK
    THEN IF DateParse(<<"2","0","2","4","-","0","3","-","1","0","T","0","7",":","0","0",":","0","0",".","0","0","0","Z">>) <= instant /\ instant < DateParse(<<"2","0","2","4","-","1","1","-","0","3","T","0","6",":","0","0",":","0","0",".","0","0","0","Z">>)
           THEN -240 ELSE -300
  ELSE IF tz = TZ_KOLKATA THEN 330
  ELSE 0

\* C12: for a date YYYY-MM-DD, a time HH:MM and a zone, zonedToUtcISO returns
\* the ISO string of the instant that lies the zone's UTC offset, taken at the
\* date and time read as UTC, before that naive instant; 2024-07-04 14:30 in
\* America/New_York gives 2024-07-04T18:30:00.000Z, and for UTC the result is
\* the naive timestamp itself
C12_ZonedToUtc ==
  (/\ call.fn = "zonedToUtcISO" /\ call.pc = "returned"
   /\ IsDate(call.dateStr) /\ IsTime(call.timeStr) /\ call.tz \in KnownZones) =>
    LET naive == NaiveString(call.dateStr, call.timeStr)
    IN /\ call.out # Null
       /\ Len(call.out[1]) = 24
       /\ DateParse(call.out[1]) = DateParse(naive) - OffsetIn2024(call.tz, DateParse(naive))
       /\ call.tz = TZ_UTC => call.out[1] = naive
       /\ (call.dateStr = S_DATE /\ call.timeStr = S_TIME /\ call.tz = TZ_NEW_YORK) =>
            call.out[1] = <<"2","0","2","4","-","0","7","-","0","4","T","1","8",":","3","0",":","0","0",".","0","0","0","Z">>

\* the call of the example has returned
C12_Witness ==
  /\ call.fn = "zonedToUtcISO" /\ call.pc = "returned"
  /\ call.dateStr = S_DATE /\ call.timeStr = S_TIME /\ call.tz = TZ_NEW_YORK
  /\ call.out # Null

\* the text has a part, between the separators, that is empty or is not a
\* decimal number
BadPart(s, sep) == \E k \in 1..Len(Split(s, sep)) : ~AllDigits(Split(s, sep)[k])

\* C13: zonedToUtcISO returns null when the date, the time or the zone is
\* empty, and when the date or the time is malformed: a part between its
\* separators is missing or is not a number
C13_MalformedYieldsNull ==
  (/\ call.fn = "zonedToUtcISO" /\ call.pc = "returned"
   /\ \/ call.dateStr = <<>> \/ call.timeStr = <<>> \/ call.tz = <<>>
      \/ BadPart(call.dateStr, "-") \/ BadPart(call.timeStr, ":")) =>
    call.out = Null

(* ---------------------------------------------------------------------- *)
(* Bookings whose date or time does not convert                            *)
(* ---------------------------------------------------------------------- *)
\* complete submissions: the date, or the time, is not in the shape the
\* converter reads; the form's booking for comparison
B_slashes == [fullName |-> S_ANN, email |-> S_EMAIL, date |-> D_SLASHES, time |-> S_TIME,
              timeZone |-> TZ_NEW_YORK]
B_word == [name |-> S_ANN, mail |-> S_EMAIL, date |-> S_DATE, time |-> T_WORD]
ConvBodies == {B_slashes, B_word, B_form}

ConvNext ==
  \/ \E ok \in BOOLEAN : Bootstrap(ok)
  \/ \E i \in DbReqs, b \in ConvBodies : BookReceive(i, b)
  \/ \E i \in DbReqs, ok \in BOOLEAN : BookInsertDone(i, ok)
  \/ \E i \in DbReqs, ok \in BOOLEAN : BookUserMailDone(i, ok)
  \/ \E i \in DbReqs, ok \in BOOLEAN : BookSalesMailDone(i, ok)
  \/ \E d \in TickSteps : Tick(d)
  \/ Sweep

ConvSpec == Init /\ [][ConvNext]_vars

\* the stored row of request i, if its insert succeeded
RowOf(i) == {rows[k] : k \in {h \in 1..Len(rows) : rows[h].email = F_email(req[i].body)
                                                     /\ "date" \in DOMAIN rows[h]
                                                     /\ rows[h].date = F_date(req[i].body)}}

\* C14: a complete submission whose date and time convert to null is handled
\* like any other: its end instant is null too, it is never answered with an
\* error, the insert is attempted (where there is a pool) and stores null in
\* start_utc and end_utc, both emails are attempted (where there is a
\* transporter), and the response is 200
C14_NullConversionTolerated ==
  \A i \in Reqs :
    (/\ req[i].pc # "idle" /\ Complete(req[i].body) /\ ~req[i].dedup
     /\ startISO(req[i].body) = Null) =>
      /\ endISO(req[i].body) = Null
      /\ req[i].status \in {0, 200}
      /\ pool => req[i].insAtt = 1
      /\ req[i].insOk =>
           \E row \in RowOf(i) : row.start_utc = Null /\ row.end_utc = Null
      /\ Finished(req[i]) =>
           /\ req[i].status = 200
           /\ transporter => req[i].userAtt = 1 /\ req[i].salesAtt = 1

\* such a submission has been stored, both emails were attempted (the
\* confirmation failed), and it was answered
C14_Witness ==
  \E i \in Reqs :
    /\ Finished(req[i]) /\ Complete(req[i].body) /\ startISO(req[i].body) = Null
    /\ req[i].insOk /\ req[i].userAtt = 1 /\ ~req[i].userOk /\ req[i].salesOk
    /\ req[i].status = 200
    /\ \E row \in RowOf(i) : row.start_utc = Null

(* ---------------------------------------------------------------------- *)
(* GET /api/slots                                                          *)
(* ---------------------------------------------------------------------- *)
\* new Date(`${date}T09:00:00`): a date-time without an offset is local time,
\* so the instant is 09:00 of that date in the server's zone, whose UTC offset
\* then is `off` minutes; text that is no date gives an invalid Date
ParseLocal0900(date, off) ==
  IF IsDate(date)
    THEN Num(DaysFromCivil(DecVal(SubSeq(date, 1, 4)), DecVal(SubSeq(date, 6, 7)),
                           DecVal(SubSeq(date, 9, 10))) * 1440 + 9 * 60 - off)
    ELSE NaN

\* d.setUTCHours(0, min, 0, 0) on a valid time value: the UTC day of the
\* instant, at `min` minutes
setUTCHours(t, min) == (t \div 1440) * 1440 + min

\* the `slots` of the response for a valid `base`
slotsOf(date, off, clock) ==
  LET base == IF date # <<>> THEN ParseLocal0900(date, off).v ELSE clock
  IN [k \in 1..3 |-> toISOString(setUTCHours(base, <<600, 780, 930>>[k]))]

\* toISOString throws a RangeError on an invalid Date; the handler is
\* synchronous, so Express answers 500
SlotsResponse(date, off, clock) ==
  IF date # <<>> /\ ParseLocal0900(date, off).kind # "num"
    THEN [status |-> 500, slots |-> <<>>]
    ELSE [status |-> 200, slots |-> slotsOf(date, off, clock)]

D_NEWYEAR == <<"2","0","2","4","-","0","1","-","0","1">>
D_YEAREND == <<"2","0","2","4","-","1","2","-","3","1">>
D_LEAPDAY == <<"2","0","2","4","-","0","2","-","2","9">>
SlotDates == {S_DATE, D_WINTER, D_SPRING, D_AUTUMN, D_NEWYEAR, D_YEAREND, D_LEAPDAY,
              D_WORD, <<>>}
\* UTC offsets of the server's zone, minutes: Honolulu, New York, UTC, Kolkata,
\* Tokyo, Sydney, Auckland (daylight time)
ServerOffsets == {-600, -300, 0, 330, 540, 600, 780}
\* Date.now() of a request without a date
SlotClock == DateParse(<<"2","0","2","4","-","0","7","-","0","4","T","1","8",":","3","0",":","0","0",".","0","0","0","Z">>)

SlotsInit ==
  /\ Quiet /\ ProxyIdle /\ ClientIdle
  /\ call \in {[fn |-> "slots", pc |-> "called", date |-> d, off |-> o, clock |-> SlotClock,
                out |-> [status |-> 0, slots |-> <<>>]] : d \in SlotDates, o \in ServerOffsets}

\* app.get('/api/slots')
SlotsRespond ==
  /\ call.fn = "slots" /\ call.pc = "called"
  /\ call' = [call EXCEPT !.pc = "returned",
                          !.out = SlotsResponse(call.date, call.off, call.clock)]
  /\ UNCHANGED <<bookVars, proxyVars, clientVars>>

SlotsNext == SlotsRespond

SlotsSpec == SlotsInit /\ [][SlotsNext]_vars

\* C15: for a calendar date D, whatever the zone of the server, the response
\* of GET /api/slots?date=D is 200 with exactly the three timestamps 10:00,
\* 13:00 and 15:30 UTC of D (600, 780 and 930 minutes after UTC midnight), in
\* this order
C15_SlotsOfUtcDay ==
  (call.fn = "slots" /\ call.pc = "returned" /\ IsDate(call.date)) =>
    /\ call.out.status = 200
    /\ call.out.slots = <<NaiveString(call.date, <<"1","0",":","0","0">>),
                          NaiveString(call.date, <<"1","3",":","0","0">>),
                          NaiveString(call.date, <<"1","5",":","3","0">>)>>

(* ---------------------------------------------------------------------- *)
(* The input normalizer on its own                                         *)
(* ---------------------------------------------------------------------- *)
\* the fields that the handler resolves from a body
Normalize(b) ==
  [fullName |-> F_fullName(b), email |-> F_email(b), phone |-> F_phone(b),
   company |-> F_company(b), date |-> F_date(b), time |-> F_time(b),
   timeZone |-> F_timeZone(b), notes |-> F_notes(b), duration |-> F_duration(b),
   source |-> F_source(b)]

\* bodies: each group of keys present or not, blank or not, padded and with
\* newlines
Merge(a, b) == [k \in DOMAIN a \cup DOMAIN b |-> IF k \in DOMAIN a THEN a[k] ELSE b[k]]
NoKeys == [k \in {} |-> <<>>]
NameKeys == {NoKeys, [fullName |-> <<" "," ">>], [fullName |-> <<" ","A","n","n","\n">>, name |-> <<"C","y","\r","\n","D"," ","e">>],
             [fullName |-> <<"\t">>, full_name |-> <<"B","o","b"," ">>, name |-> <<"C","y","\r","\n","D"," ","e">>],
             [name |-> <<"C","y","\r","\n","D"," ","e">>]}
NotesKeys == {NoKeys, [notes |-> <<" ","c","a","l","l","\n","m","e"," ">>], [notes |-> <<"\n">>, message |-> <<"h","i">>]}
ZoneKeys == {NoKeys, [timezone |-> TZ_NEW_YORK, tz |-> TZ_KOLKATA], [timeZone |-> <<"\t">>]}
MiscKeys == {NoKeys, [duration |-> <<" ","4","5">>, source |-> <<" ","v","o","i","c","e","-","a","g","e","n","t">>, org |-> <<"A","c","m","e","\n","I","n","c">>],
             [duration |-> <<"s","o","o","n">>, tel |-> <<"5","5","5">>, phone |-> <<>>]}
PickBodies ==
  {Merge(Merge(Merge(Merge([email |-> S_EMAIL, date |-> S_DATE, time |-> S_TIME], n), o), z), m) :
     n \in NameKeys, o \in NotesKeys, z \in ZoneKeys, m \in MiscKeys}

PickInit ==
  /\ Quiet /\ ProxyIdle /\ ClientIdle
  /\ call \in {[fn |-> "normalize", pc |-> "called", body |-> b, out |-> NoKeys] : b \in PickBodies}

\* the field resolution of app.post('/api/book')
PickReturn ==
  /\ call.fn = "normalize" /\ call.pc = "called"
  /\ call' = [call EXCEPT !.pc = "returned", !.out = Normalize(call.body)]
  /\ UNCHANGED <<bookVars, proxyVars, clientVars>>

PickNext == PickReturn

PickSpec == PickInit /\ [][PickNext]_vars

\* the key has a value that is not blank
Qualifies(b, k) == k \in DOMAIN b /\ ~Blank(b[k])
\* the value of the first qualifying key of the list, or the default
FirstValue(b, keys, def) ==
  IF \A i \in 1..Len(keys) : ~Qualifies(b, keys[i]) THEN def
  ELSE b[keys[CHOOSE i \in 1..Len(keys) :
                Qualifies(b, keys[i]) /\ \A j \in 1..(i - 1) : ~Qualifies(b, keys[j])]]
\* every run of newline characters replaced by one space
RECURSIVE Unfolded(_)
Unfolded(v) ==
  IF v = <<>> THEN <<>>
  ELSE LET init == SubSeq(v, 1, Len(v) - 1)
       IN IF v[Len(v)] \notin NL THEN Append(Unfolded(init), v[Len(v)])
          ELSE IF init # <<>> /\ init[Len(init)] \in NL THEN Unfolded(init)
          ELSE Append(Unfolded(init), " ")
\* without the whitespace at either end
Stripped(v) ==
  IF Blank(v) THEN <<>>
  ELSE SubSeq(v, CHOOSE i \in 1..Len(v) : v[i] \notin WS /\ \A j \in 1..(i - 1) : v[j] \in WS,
                 CHOOSE i \in 1..Len(v) : v[i] \notin WS /\ \A j \in (i + 1)..Len(v) : v[j] \in WS)
Tidy(v) == Stripped(Unfolded(v))

\* the fields that are text, with their alias lists and defaults
TextFields ==
  {[f |-> "fullName", keys |-> <<"fullName", "full_name", "name">>, def |-> <<>>],
   [f |-> "email", keys |-> <<"email", "mail">>, def |-> <<>>],
   [f |-> "phone", keys |-> <<"phone", "tel", "telephone">>, def |-> <<>>],
   [f |-> "company", keys |-> <<"company", "org">>, def |-> <<>>],
   [f |-> "date", keys |-> <<"date">>, def |-> <<>>],
   [f |-> "time", keys |-> <<"time">>, def |-> <<>>],
   [f |-> "timeZone", keys |-> <<"timeZone", "timezone", "tz">>, def |-> TZ_UTC],
   [f |-> "source", keys |-> <<"source">>, def |-> <<"p","r","i","c","i","n","g">>]}
NotesField == [f |-> "notes", keys |-> <<"notes", "message">>, def |-> <<>>]

Normalized == call.fn = "normalize" /\ call.pc = "returned"

\* C16 as stated: every text field, the notes included, is the value of the
\* first alias that is not blank, trimmed and with its newlines collapsed to
\* single spaces, or the default when no alias qualifies
C16_EveryFieldCleaned ==
  Normalized =>
    \A fd \in TextFields \cup {NotesField} :
      call.out[fd.f] = Tidy(FirstValue(call.body, fd.keys, fd.def))

\* C16 amended: that holds of every text field but the notes; the notes are
\* the value of the first alias that is not blank exactly as submitted, or
\* empty; the duration is the number the value of `duration` reads as, or 60
\* when there is none, it is not a number, or it is zero
C16_FieldsResolved ==
  Normalized =>
    /\ \A fd \in TextFields :
         call.out[fd.f] = Tidy(FirstValue(call.body, fd.keys, fd.def))
    /\ call.out.notes = FirstValue(call.body, NotesField.keys, NotesField.def)
    /\ LET d == FirstValue(call.body, <<"duration">>, <<>>)
       IN call.out.duration.kind = "num"
          /\ call.out.duration.v = (IF d = <<" ","4","5">> THEN 45 ELSE 60)

\* a body resolved through its third alias, with a newline inside the name and
\* in the notes, and a padded duration
C16_Witness ==
  /\ Normalized
  /\ "fullName" \in DOMAIN call.body /\ "full_name" \in DOMAIN call.body
  /\ call.out.fullName = <<"B","o","b">>
  /\ call.out.company = <<"A","c","m","e"," ","I","n","c">>
  /\ call.out.notes = <<" ","c","a","l","l","\n","m","e"," ">>
  /\ call.out.timeZone = TZ_NEW_YORK
  /\ call.out.duration.v = 45

(* ---------------------------------------------------------------------- *)
(* Bookings whose fields contain the separator of the de-dup key           *)
(* ---------------------------------------------------------------------- *)
\* two complete submissions for the same email and date that differ in the
\* time and in the time zone, and whose keys are the same text
B_barZone == [fullName |-> S_ANN, email |-> S_EMAIL, date |-> S_DATE, time |-> S_TIME,
              timeZone |-> <<"U","T","C","|","U","T","C">>]
B_barTime == [fullName |-> S_ANN, email |-> S_EMAIL, date |-> S_DATE, time |-> <<"1","4",":","3","0","|","U","T","C">>,
              timeZone |-> TZ_UTC]
KeyBodies == {B_barZone, B_barTime}
KeyReqs == {1, 2}

KeyNext ==
  \/ \E ok \in BOOLEAN : Bootstrap(ok)
  \/ \E i \in KeyReqs, b \in KeyBodies : BookReceive(i, b)
  \/ \E i \in KeyReqs, ok \in BOOLEAN : BookInsertDone(i, ok)
  \/ \E i \in KeyReqs, ok \in BOOLEAN : BookUserMailDone(i, ok)
  \/ \E i \in KeyReqs, ok \in BOOLEAN : BookSalesMailDone(i, ok)
  \/ \E d \in TickSteps : Tick(d)
  \/ Sweep

KeySpec == Init /\ [][KeyNext]_vars

\* C17: a submission is answered as a duplicate only if an earlier submission
\* that passed the de-dup check had the same normalized email, date, time and
\* time zone; submissions that differ in one of the four never suppress each
\* other
C17_ExactKeyMatch ==
  [][\A i \in Reqs :
       (Arrives(i) /\ req'[i].dedup) =>
         \E j \in Reqs \ {i} :
           Passed(req[j]) /\ Tuple(req[j].body) = Tuple(req'[i].body)]_vars

ProxySpec == ProxyInit /\ [][ProxyNext]_vars

\* the copy that the route keeps, if there is one
CachedCopy == IF proxy.store = "memory" THEN (IF sdkCache = Null THEN Null ELSE <<sdkCache[1].buf>>)
              ELSE disk
\* it is valid: on disk and above the minimum size, or in memory and younger
\* than its TTL
CopyIsValid ==
  IF proxy.store = "memory"
    THEN sdkCache # Null /\ now - sdkCache[1].time < SDK_TTL_HOURS * 3600
    ELSE disk # Null /\ disk[1].size > proxy.min
\* request i looks at the cache in this step
ChecksCache(i) ==
  IF proxy.store = "memory" THEN vreq[i].pc = "idle" /\ vreq'[i].pc # "idle"
  ELSE vreq[i].pc = "read" /\ vreq'[i].pc # "read"
\* request i turns to the first CDN URL in this step
StartsFetching(i) == vreq[i].pc \in {"idle", "read"} /\ vreq'[i].pc = "fetch"

\* C18: a request that finds a valid cached copy is answered with that copy
\* and fetches nothing; a request turns to the CDN only when it was asked to
\* bypass the cache or found no valid copy (none, too small, or expired)
C18_CachedCopyFirst ==
  [][\A i \in VReqs :
       /\ (ChecksCache(i) /\ CopyIsValid) =>
            /\ vreq'[i].pc = "done" /\ vreq'[i].status = 200
            /\ vreq'[i].body = CachedCopy /\ vreq'[i].log = <<>>
       /\ StartsFetching(i) => (~CopyIsValid \/ vreq'[i].fresh)
       /\ vreq'[i].log # <<>> => vreq'[i].idx >= 1]_vars

\* a request was answered from the copy that an earlier request had fetched
\* and cached
C18_Witness ==
  \E i, j \in VReqs :
    /\ j < i
    /\ vreq[j].pc = "done" /\ vreq[j].log # <<>> /\ vreq[j].kind = "asset"
    /\ vreq[i].pc = "done" /\ vreq[i].log = <<>> /\ vreq[i].kind = "asset"
    /\ vreq[i].body = vreq[j].body /\ vreq[i].body # Null

\* the body passes the route's validation: the minimum size and, where the
\* route has one, the content heuristic
Validated(b) == b # Null /\ b[1].size >= proxy.min /\ (proxy.heuristic => b[1].marker)

\* C19: a request fetches the CDN URLs in list order and fetches none after
\* the first whose body is validated; that body is what it serves, and only
\* validated bodies are persisted, on disk or in memory
C19_FirstValidatedWins ==
  \A i \in VReqs :
    LET log == vreq[i].log
    IN /\ \A k \in 1..Len(log) : log[k] # Null => log[k][1].src = k
       /\ \A k \in 1..(Len(log) - 1) : ~Validated(log[k])
       /\ (vreq[i].pc = "done" /\ vreq[i].kind = "asset" /\ log # <<>>) =>
            Validated(vreq[i].body) /\ vreq[i].body = log[Len(log)]
       /\ (disk # Null /\ disk[1].src >= 1) => Validated(disk)
       /\ sdkCache # Null => Validated(<<sdkCache[1].buf>>)

\* C20: the step that answers a request for which every CDN URL has failed
\* answers with status 200: with the copy that is cached at that moment,
\* however small or old, if there is one, and else with a script that only
\* logs an error to the console
C20_DegradesWithoutError ==
  [][\A i \in VReqs :
       (/\ vreq[i].pc # "done" /\ vreq'[i].pc = "done"
        /\ Len(vreq'[i].log) = proxy.nsrc
        /\ \A k \in 1..proxy.nsrc : ~Validated(vreq'[i].log[k])) =>
         /\ vreq'[i].status = 200
         /\ IF CachedCopy # Null THEN vreq'[i].body = CachedCopy
            ELSE vreq'[i].kind = "stub"]_vars

(* ---------------------------------------------------------------------- *)
(* The de-dup window and what a duplicate stands on                        *)
(* ---------------------------------------------------------------------- *)
\* C26: a request that is short-circuited as a duplicate leaves the de-dup
\* map as it was, and is within DEDUP_SECONDS of a request with the same key
\* that passed the check: repeats do not extend the window
C26_DuplicateLeavesMap ==
  [][\A i \in Reqs :
       (Arrives(i) /\ req'[i].dedup) =>
         /\ recentBookings' = recentBookings
         /\ \E j \in Reqs \ {i} :
              /\ Passed(req[j])
              /\ dedupKey(req[j].body) = dedupKey(req'[i].body)
              /\ now < req[j].at + DEDUP_SECONDS]_vars

C26_Witness ==
  \E i, j \in Reqs :
    /\ req[i].dedup /\ Finished(req[i])
    /\ Passed(req[j]) /\ req[j].at > 0
    /\ dedupKey(req[i].body) \in DOMAIN recentBookings
    /\ recentBookings[dedupKey(req[i].body)] = req[j].at + DEDUP_SECONDS
    /\ now > req[j].at

\* the request stored its row or sent one of its emails
SomeEffect(r) == r.insOk \/ r.userOk \/ r.salesOk

\* C27: once every request has been answered, each request answered as a
\* duplicate has an earlier request with the same key that stored its row or
\* sent at least one of its emails
C27_DuplicateOfEffective ==
  (\A k \in Reqs : req[k].pc \in {"idle", "done"}) =>
    \A i \in Reqs :
      req[i].dedup =>
        \E j \in Reqs : /\ j < i /\ Passed(req[j])
                        /\ dedupKey(req[j].body) = dedupKey(req[i].body)
                        /\ SomeEffect(req[j])

\* C22: a book_demo request without name, email or phone is answered 400
\* with no insert and no email; every other one makes one insert attempt,
\* attempts both emails whatever failed before, and is answered ok:true
C22_DemoSideEffects ==
  \A i \in Demos :
    demo[i].pc = "done" =>
      IF DemoMissing(demo[i].body)
        THEN /\ demo[i].status = 400
             /\ demo[i].insAtt = 0 /\ demo[i].salesAtt = 0 /\ demo[i].userAtt = 0
        ELSE /\ demo[i].status = 200
             /\ demo[i].insAtt = 1 /\ demo[i].salesAtt = 1 /\ demo[i].userAtt = 1

(* ---------------------------------------------------------------------- *)
(* Session-minting endpoints: POST /api/retell/token, /api/retell/         *)
(* create-web-call (handleCreateWebCall) and /api/openai/realtime-session. *)
(* A text is a sequence of pieces; the API key is a piece of its own.      *)
(* ---------------------------------------------------------------------- *)
R_TOKEN == "/api/retell/token"
R_WEBCALL == "/api/retell/create-web-call"
R_REALTIME == "/api/openai/realtime-session"
MintRoutes == {R_TOKEN, R_WEBCALL, R_REALTIME}
IsRetell(route) == route \in {R_TOKEN, R_WEBCALL}

\* process.env: the key and the agent id, each set or not
S_KEY == <<"sk-live-1">>
S_AGENT == <<"agent_1">>
S_TOKEN == <<"tok_1">>
S_MODEL == <<"gpt-4o-realtime-preview">>
S_VERSE == <<"verse">>
S_BASE == <<"You are a warm, concise voice agent for the website.">>
MintEnvs == {[key |-> k, agent |-> a] : k \in {Null, S_KEY}, a \in {Null, S_AGENT}}

\* request bodies of the client
NoJson == [k \in {} |-> <<>>]
MintBodies == {NoJson, [voice |-> <<"alloy">>], [instructions |-> <<"Speak French.">>]}

\* obj?.k, with undefined and '' both read as the empty text
Get(obj, k) == IF Has(obj, k) THEN obj[k] ELSE <<>>

\* the replies of the vendor: its status and its body as r.json() parses it
\* ({} for a body that is not JSON), or a rejected fetch
RetellReplies ==
  {[thrown |-> FALSE, status |-> 201, data |-> [access_token |-> S_TOKEN, call_id |-> <<"c1">>]],
   [thrown |-> FALSE, status |-> 200, data |-> [call_id |-> <<"c1">>]],
   [thrown |-> FALSE, status |-> 200, data |-> [access_token |-> <<>>]],
   [thrown |-> FALSE, status |-> 401, data |-> [error |-> <<"Unauthorized">>]],
   [thrown |-> FALSE, status |-> 402, data |-> [access_token |-> S_TOKEN]],
   [thrown |-> FALSE, status |-> 502, data |-> NoJson],
   [thrown |-> TRUE, status |-> 0, data |-> NoJson]}
OpenAIReplies ==
  {[thrown |-> FALSE, status |-> 200,
    data |-> [client_secret |-> [value |-> S_TOKEN], model |-> S_MODEL]],
   [thrown |-> FALSE, status |-> 200, data |-> [client_secret |-> [value |-> S_TOKEN]]],
   [thrown |-> FALSE, status |-> 200, data |-> [model |-> S_MODEL]],
   [thrown |-> FALSE, status |-> 200, data |-> [client_secret |-> [value |-> <<>>]]],
   [thrown |-> FALSE, status |-> 401,
    data |-> [error |-> [message |-> <<"Incorrect API key provided.">>]]],
   [thrown |-> FALSE, status |-> 429,
    data |-> [client_secret |-> [value |-> S_TOKEN], model |-> S_MODEL]],
   [thrown |-> FALSE, status |-> 502, data |-> NoJson],
   [thrown |-> TRUE, status |-> 0, data |-> NoJson]}
VendorReplies(route) == IF IsRetell(route) THEN RetellReplies ELSE OpenAIReplies

\* r.ok
ReplyOk(reply) == reply.status >= 200 /\ reply.status <= 299

\* data?.access_token, data?.client_secret?.value
TokenOf(route, data) ==
  IF IsRetell(route) THEN Get(data, "access_token")
  ELSE IF Has(data, "client_secret") THEN Get(data.client_secret, "value") ELSE <<>>

\* !apiKey || !agentId, !apiKey
MissingConfig(route, env) ==
  IF IsRetell(route) THEN env.key = Null \/ env.agent = Null ELSE env.key = Null

MissingBody(route) ==
  [error |-> IF IsRetell(route) THEN <<"Missing RETELL_API_KEY or RETELL_AGENT_ID">>
             ELSE <<"Missing OPENAI_API_KEY">>]

\* the request sent to the vendor
VendorRequest(route, env, body) ==
  IF IsRetell(route)
    THEN [url |-> "https://api.retellai.com/v2/create-web-call",
          authorization |-> <<"Bearer ">> \o env.key,
          body |-> [agent_id |-> env.agent]]
    ELSE [url |-> "https://api.openai.com/v1/realtime/sessions",
          authorization |-> <<"Bearer ">> \o env.key,
          body |-> [model |-> S_MODEL,
                    voice |-> IF Get(body, "voice") # <<>> THEN body.voice ELSE S_VERSE,
                    instructions |->
                      (IF Get(body, "instructions") # <<>>
                         THEN body.instructions \o <<"\n">> ELSE <<>>) \o S_BASE]]

\* variant: only the status of the vendor's reply is looked at
VendorFailed_statusOnly(route, reply) == ~ReplyOk(reply)

\* !resp.ok || !data?.access_token, !r.ok || !data?.client_secret?.value
VendorFailed(route, reply) == ~ReplyOk(reply) \/ TokenOf(route, reply.data) = <<>>

\* the 500 body after a failed vendor call
FailureBody(route, reply) ==
  IF IsRetell(route)
    THEN [error |-> IF Get(reply.data, "error") # <<>> THEN reply.data.error
                    ELSE <<"Retell returned ">> \o NumStr(reply.status),
          details |-> reply.data]
    ELSE [error |-> IF Has(reply.data, "error") /\ Get(reply.data.error, "message") # <<>>
                      THEN reply.data.error.message
                    ELSE <<"OpenAI returned ">> \o NumStr(reply.status)]

\* the success body: the token under one field name; JSON drops `model`
\* when it is undefined
SuccessBody(route, reply) ==
  LET secret == IF Has(reply.data, "client_secret") THEN reply.data.client_secret ELSE NoJson
  IN IF IsRetell(route) THEN [access_token |-> Get(reply.data, "access_token")]
     ELSE IF Has(reply.data, "model")
       THEN [client_secret |-> secret, model |-> reply.data.model]
       ELSE [client_secret |-> secret]

\* the body of the catch: String(err) of the rejected fetch, 'server_error'
CaughtBody(route) ==
  [error |-> IF IsRetell(route) THEN <<"TypeError: fetch failed">> ELSE <<"server_error">>]

\* a request arrives at a process with the environment env
MintInit ==
  /\ Quiet /\ ProxyIdle /\ ClientIdle
  /\ call \in {[fn |-> "mint", pc |-> "called", route |-> r, env |-> e, body |-> b,
                sent |-> <<>>, reply |-> Null, status |-> 0, out |-> NoJson] :
               r \in MintRoutes, e \in MintEnvs, b \in MintBodies}

\* the handler up to its await of the vendor call, or to its 500
MintReceive ==
  /\ call.fn = "mint" /\ call.pc = "called"
  /\ call' = IF MissingConfig(call.route, call.env)
               THEN [call EXCEPT !.pc = "returned", !.status = 500,
                                 !.out = MissingBody(call.route)]
               ELSE [call EXCEPT !.pc = "fetch",
                                 !.sent = Append(@, VendorRequest(call.route, call.env, call.body))]
  /\ UNCHANGED <<bookVars, proxyVars, clientVars>>

\* the vendor call settles; the handler responds
MintFetchDone(reply) ==
  /\ call.fn = "mint" /\ call.pc = "fetch"
  /\ call' = IF reply.thrown
               THEN [call EXCEPT !.pc = "returned", !.reply = <<reply>>, !.status = 500,
                                 !.out = CaughtBody(call.route)]
             ELSE IF VendorFailed(call.route, reply)
               THEN [call EXCEPT !.pc = "returned", !.reply = <<reply>>, !.status = 500,
                                 !.out = FailureBody(call.route, reply)]
             ELSE [call EXCEPT !.pc = "returned", !.reply = <<reply>>, !.status = 200,
                               !.out = SuccessBody(call.route, reply)]
  /\ UNCHANGED <<bookVars, proxyVars, clientVars>>

MintNext ==
  \/ MintReceive
  \/ \E reply \in VendorReplies(call.route) : MintFetchDone(reply)

MintSpec == MintInit /\ [][MintNext]_vars

\* every text of a response body, at any depth
BodyTexts(b) ==
  {b[f] : f \in DOMAIN b \ {"details", "client_secret"}}
    \cup (IF "details" \in DOMAIN b THEN {b.details[f] : f \in DOMAIN b.details} ELSE {})
    \cup (IF "client_secret" \in DOMAIN b
            THEN {b.client_secret[f] : f \in DOMAIN b.client_secret} ELSE {})
\* the text has the key in it
KeyIn(t, key) == key # <<>> /\ \E k \in 1..Len(t) : t[k] = key[1]
\* the vendor's reply is non-2xx, or has no token in it
Unusable(route, reply) ==
  \/ reply.thrown
  \/ reply.status \notin 200..299
  \/ IF IsRetell(route) THEN ~Has(reply.data, "access_token") \/ reply.data.access_token = <<>>
     ELSE \/ ~Has(reply.data, "client_secret")
          \/ ~Has(reply.data.client_secret, "value")
          \/ reply.data.client_secret.value = <<>>

RtcInit == Quiet /\ ProxyIdle /\ ClientIdle /\ call = NoCall

RtcSpec == RtcInit /\ [][RtcNext]_vars

\* the last call the page made
LastCall == IF calls = <<>> THEN "none" ELSE calls[Len(calls)]
\* the peer connections that are not closed
OpenPcs == {p \in 1..Len(pcs) : ~pcs[p].closed}
\* the reconnect timer fires in this step
Reconnects == Len(starts') > Len(starts) /\ starts'[Len(starts')].by = "timer"

\* C23: at most one reconnect timeout is pending; a failed or disconnected
\* connection schedules one unless one is pending; when it fires, the current
\* session is stopped and start is called with the last options; stop()
\* cancels it, and no reconnect happens while stop() is the page's last call
C23_ReconnectOnceUntilStop ==
  [][/\ timeouts' <= 1
     /\ (\E p \in 1..Len(pcs) :
           pcs'[p].state \in {"failed", "disconnected"} /\ pcs'[p].state # pcs[p].state)
          => timeouts' = 1 /\ reconnectTimer'
     /\ Reconnects =>
          /\ current' = Null /\ (current # Null => pcs'[current[1]].closed)
          /\ lastOpts # Null /\ starts'[Len(starts')].opts = lastOpts[1]
          /\ LastCall # "stop"
     /\ (Len(calls') > Len(calls) /\ LastCall' = "stop") => timeouts' = 0 /\ ~reconnectTimer'
    ]_vars

\* C29: at most one peer connection is open, and none once stop() is the
\* page's last call
C29_OneOpenConnection ==
  /\ Cardinality(OpenPcs) <= 1
  /\ LastCall = "stop" => OpenPcs = {}

\* C30: while the keepalive channel of the current session is open, its ping
\* interval, and no other, is active; none is active once stop() is the
\* page's last call
C30_PingWhileOpen ==
  /\ (current # Null /\ pcs[current[1]].keep = "open") => intervals = {current[1]}
  /\ LastCall = "stop" => intervals = {}

(* ---------------------------------------------------------------------- *)
(* Assistant text on the data channels (openai-realtime.v1.js, second     *)
(* script; agent-booking.js)                                               *)
(* ---------------------------------------------------------------------- *)
\* A text is a sequence of pieces: a word, a newline, the booking tag, or a
\* JSON object in one piece.  Braces occur in the JSON pieces only.
TAG == "<<BOOK>>"
J_FULL == "{full}"
J_NOZONE == "{noZone}"
J_NAME == "{name}"
S_VOICE_AGENT == <<"v","o","i","c","e","-","a","g","e","n","t">>

\* the browser's zone, Intl.DateTimeFormat().resolvedOptions().timeZone
tzLocal == TZ_KOLKATA

\* JSON.parse of one of the objects the assistant writes
JsonObject(piece) ==
  CASE piece = J_FULL -> [fullName |-> S_ANN, email |-> S_EMAIL, date |-> S_DATE,
                          time |-> S_TIME, timeZone |-> TZ_NEW_YORK]
    [] piece = J_NOZONE -> [fullName |-> S_ANN, email |-> S_EMAIL, date |-> S_DATE,
                            time |-> S_TIME]
    [] piece = J_NAME -> [name |-> S_ANN, email |-> S_EMAIL, date |-> S_DATE,
                          time |-> S_TIME, timeZone |-> TZ_NEW_YORK]
JsonPieces == {J_FULL, J_NOZONE, J_NAME}

\* JSON.parse(text): one object, white space around it allowed; anything
\* else throws (Null)
JsonParse(text) ==
  LET t == Trim(text)
  IN IF Len(t) = 1 /\ t[1] \in JsonPieces THEN <<JsonObject(t[1])>> ELSE Null

\* obj with obj[k] = v
WithField(obj, k, v) == [f \in DOMAIN obj \cup {k} |-> IF f = k THEN v ELSE obj[f]]

\* !obj[k]
Falsy(obj, k) == ~Has(obj, k) \/ obj[k] = <<>>

\* function tryParseBookingLine(finalText)
tryParseBookingLine(finalText) ==
  LET lines == Split(finalText, "\n")
      trimmed == [i \in 1..Len(lines) |-> Trim(lines[i])]
      found == {i \in 1..Len(trimmed) : trimmed[i] # <<>> /\ trimmed[i][1] = TAG}
  IN IF found = {} THEN Null
     ELSE LET line == trimmed[CHOOSE i \in found : \A j \in found : i <= j]
              parsed == JsonParse(Tail(line))
          IN IF parsed = Null THEN Null
             ELSE LET obj == parsed[1]
                      need == {"fullName", "email", "date", "time", "timeZone"}
                      missing == {k \in need : Falsy(obj, k) \/ Trim(obj[k]) = <<>>}
                      o1 == IF Falsy(obj, "duration")
                              THEN WithField(obj, "duration", <<"6","0">>) ELSE obj
                      o2 == IF Falsy(o1, "source")
                              THEN WithField(o1, "source", S_VOICE_AGENT) ELSE o1
                  IN IF missing # {} THEN Null ELSE <<o2>>

\* function parseSignal(text) of agent-booking.js: from the first '{' after
\* the tag to the last '}' of the text
parseSignal(text) ==
  LET tags == {i \in 1..Len(text) : text[i] = TAG}
      i == CHOOSE a \in tags : \A b \in tags : a <= b
      opens == {a \in 1..Len(text) : a > i /\ text[a] \in JsonPieces}
      j == CHOOSE a \in opens : \A b \in opens : a <= b
      closes == {a \in 1..Len(text) : text[a] \in JsonPieces}
      k == CHOOSE a \in closes : \A b \in closes : a >= b
  IN IF tags = {} THEN Null
     ELSE IF opens = {} THEN Null
     ELSE IF k < j THEN Null
     ELSE JsonParse(SubSeq(text, j, k))

\* sig[k] || def
OrElse(sig, k, def) == IF Falsy(sig, k) THEN def ELSE sig[k]

\* variant: the hook books in the browser's zone
HookZone_local(sig) == tzLocal

\* timeZone: sig.timeZone || tzLocal
HookZone(sig) == OrElse(sig, "timeZone", tzLocal)

\* the payload that onAssistantText(text) of agent-booking.js posts, if any
onAssistantText(text) ==
  LET parsed == parseSignal(text)
  IN IF parsed = Null THEN Null
     ELSE LET sig == parsed[1]
              fullName == OrElse(sig, "fullName", OrElse(sig, "name", <<>>))
          IN IF fullName = <<>> \/ Falsy(sig, "email") \/ Falsy(sig, "date")
                \/ Falsy(sig, "time")
               THEN Null
             ELSE <<[fullName |-> fullName, email |-> sig.email, phone |-> OrElse(sig, "phone", <<>>),
                     company |-> OrElse(sig, "company", <<>>), date |-> sig.date,
                     time |-> sig.time, timeZone |-> HookZone(sig),
                     duration |-> OrElse(sig, "duration", <<"6","0">>),
                     source |-> S_VOICE_AGENT]>>

\* the events of the oai-events channel
ResponseIds == {"r1", "r2"}
D_OK == <<"Ok.", "\n">>
D_BOOK == <<TAG, J_FULL>>
Deltas == {D_OK, D_BOOK}
Ev(type, id, delta) == [type |-> type, id |-> id, delta |-> delta]
Events ==
  {Ev(t, id, <<>>) : t \in {"response.created", "response.completed", "response.error",
                            "response.cancelled"}, id \in ResponseIds}
    \cup {Ev("response.output_text.delta", id, d) : id \in ResponseIds, d \in Deltas}

\* delete buffers[id]
Delete(buf, id) == [k \in DOMAIN buf \ {id} |-> buf[k]]

\* variant: response.created empties the buffer
Created_reset(buf, id) == WithField(buf, id, <<>>)

\* case 'response.created': if (id && !(id in buffers)) buffers[id] = ''
Created(buf, id) == IF id \in DOMAIN buf THEN buf ELSE WithField(buf, id, <<>>)

\* the buffers after handleEventMessage(m)
AfterEvent(buf, m) ==
  CASE m.type = "response.created" -> Created(buf, m.id)
    [] m.type = "response.output_text.delta" ->
         WithField(buf, m.id, (IF m.id \in DOMAIN buf THEN buf[m.id] ELSE <<>>) \o m.delta)
    [] m.type = "response.completed" -> Delete(buf, m.id)
    [] m.type \in {"response.error", "response.cancelled"} -> Delete(buf, m.id)

\* variant: the set of posted ids is not consulted
CaptureAllowed_always(posted, id) == TRUE

\* if (finalText && id && !postedResponseIds.has(id))
CaptureAllowed(posted, id) == id \notin posted

\* the requests a text causes: the hook's POST first, then the one of the
\* client itself (`by` tells the capture from the fallback scan)
PostsOf(n, id, hookBody, by, capBody) ==
  (IF hookBody = Null THEN <<>>
   ELSE <<[by |-> "hook", id |-> id, n |-> n, body |-> hookBody[1]]>>)
  \o (IF capBody = Null THEN <<>>
      ELSE <<[by |-> by, id |-> id, n |-> n, body |-> capBody[1]]>>)

\* pc.ondatachannel with the label 'oai-events'
OaiChannel(p) ==
  /\ p \in 1..Len(pcs) /\ ~pcs[p].closed /\ pcs[p].state = "connected"
  /\ pcs[p].dc = "none"
  /\ pcs' = [pcs EXCEPT ![p].dc = "open"]
  /\ UNCHANGED <<current, lastOpts, reconnectTimer, pingTimer, timeouts, intervals,
                 starts, calls>>
  /\ UNCHANGED <<bookVars, call, proxyVars, capVars>>

\* ch.onmessage of the oai-events channel: handleEventMessage(ev.data), with
\* the synchronous part of the hook it calls
Deliver(p, m) ==
  /\ p \in 1..Len(pcs) /\ ~pcs[p].closed /\ pcs[p].dc = "open"
  /\ Len(heard) < MaxEvents
  /\ LET n == Len(heard) + 1
         buf == pcs[p].buffers
         finalText == IF m.id \in DOMAIN buf THEN buf[m.id] ELSE <<>>
         forward == m.type = "response.completed" /\ finalText # <<>>
         hookBody == IF forward THEN onAssistantText(finalText) ELSE Null
         capBody == IF forward /\ CaptureAllowed(postedResponseIds, m.id)
                      THEN tryParseBookingLine(finalText) ELSE Null
     IN /\ heard' = Append(heard, [pc |-> p, type |-> m.type, id |-> m.id,
                                   delta |-> m.delta])
        /\ pcs' = [pcs EXCEPT ![p].buffers = AfterEvent(buf, m)]
        /\ hookCalls' = IF forward
                          THEN Append(hookCalls, [n |-> n, pc |-> p, id |-> m.id,
                                                  text |-> finalText])
                        ELSE hookCalls
        /\ postedResponseIds' = IF capBody # Null THEN postedResponseIds \cup {m.id}
                                ELSE postedResponseIds
        /\ posts' = posts \o PostsOf(n, m.id, hookBody, "capture", capBody)
  /\ UNCHANGED <<current, lastOpts, reconnectTimer, pingTimer, timeouts, intervals,
                 starts, calls>>
  /\ UNCHANGED <<bookVars, call, proxyVars>>

\* ch.onmessage of a channel with any other label: the text s is scanned for
\* a booking line and forwarded to the hook
RawText(p, s) ==
  /\ p \in 1..Len(pcs) /\ ~pcs[p].closed /\ pcs[p].state = "connected"
  /\ Len(heard) < MaxEvents
  /\ LET n == Len(heard) + 1
     IN /\ heard' = Append(heard, [pc |-> p, type |-> "raw", id |-> "", delta |-> s])
        /\ hookCalls' = Append(hookCalls, [n |-> n, pc |-> p, id |-> "", text |-> s])
        /\ posts' = posts \o PostsOf(n, "", onAssistantText(s), "fallback",
                                    tryParseBookingLine(s))
  /\ UNCHANGED <<current, lastOpts, reconnectTimer, pingTimer, timeouts, intervals,
                 pcs, starts, calls, postedResponseIds>>
  /\ UNCHANGED <<bookVars, call, proxyVars>>

\* start({ voice: 'verse' }) has returned: the answer of the vendor is set and
\* the connection is about to be established
ClientInSession ==
  /\ current = <<1>> /\ lastOpts = <<"verse">> /\ reconnectTimer = FALSE /\ pingTimer = Null
  /\ postedResponseIds = {} /\ timeouts = 0 /\ intervals = {}
  /\ pcs = <<[NewPc EXCEPT !.remote = TRUE, !.keep = "connecting"]>>
  /\ starts = <<[by |-> "user", opts |-> "verse", at |-> "done", pc |-> 1]>>
  /\ calls = <<"start">>
  /\ heard = <<>> /\ hookCalls = <<>> /\ posts = <<>>

InSession == Quiet /\ ProxyIdle /\ call = NoCall /\ ClientInSession

\* a session whose connections fail and are replaced by the reconnect timer,
\* every start succeeding
Reconnecting ==
  \/ TimerFires
  \/ \E s \in 1..MaxStarts : StartSessionDone(s, TRUE)
  \/ \E s \in 1..MaxStarts : StartMicDone(s, TRUE)
  \/ \E s \in 1..MaxStarts : StartSdpDone(s, TRUE)
  \/ \E p \in 1..MaxStarts : PcConnects(p)
  \/ \E p \in 1..MaxStarts : PcFails(p, "failed")
  \/ \E p \in 1..MaxStarts : OaiChannel(p)

\* responses that carry a booking line, complete and possibly repeated
CaptureEvents ==
  {Ev("response.output_text.delta", id, D_BOOK) : id \in ResponseIds}
    \cup {Ev("response.completed", id, <<>>) : id \in ResponseIds}

CaptureNext ==
  \/ Reconnecting
  \/ \E p \in 1..MaxStarts, m \in CaptureEvents : Deliver(p, m)
  \/ \E p \in 1..MaxStarts : RawText(p, D_BOOK)

CaptureSpec == InSession /\ [][CaptureNext]_vars

\* any events on the oai-events channel of one connection
TextNext ==
  \/ PcConnects(1)
  \/ OaiChannel(1)
  \/ \E m \in Events : Deliver(1, m)

TextSpec == InSession /\ [][TextNext]_vars

\* the requests of the built-in capture for the response id
CapturePosts(id) == {k \in 1..Len(posts) : posts[k].by = "capture" /\ posts[k].id = id}

\* the completion events of the response id that forwarded a text with a
\* booking line the capture accepts
BookingCompletions(id) ==
  {k \in 1..Len(hookCalls) : hookCalls[k].id = id /\ tryParseBookingLine(hookCalls[k].text) # Null}

\* C24: the booking capture of the realtime client sends at most one POST
\* /api/book per assistant response id: once a booking has been posted for an
\* id, no later event for that id, a repeated response.completed on the same
\* or on a later connection included, causes another post
C24_OnePostPerResponseId ==
  \A id \in ResponseIds :
    /\ Cardinality(CapturePosts(id)) <= 1
    /\ CapturePosts(id) # {} <=> id \in postedResponseIds
    /\ BookingCompletions(id) # {} => CapturePosts(id) # {}

\* a response id completed with its booking line on two connections, posted
\* by the capture once
C24_Witness ==
  \E id \in ResponseIds :
    /\ Cardinality(CapturePosts(id)) = 1
    /\ \E a, b \in BookingCompletions(id) : hookCalls[a].pc # hookCalls[b].pc

\* the events that end a response
Ends == {"response.completed", "response.error", "response.cancelled"}

\* the last of the events before the n-th that ended the response id on
\* connection p, or 0
LastEnd(p, id, n) ==
  LET ends == {j \in 1..(n - 1) : heard[j].pc = p /\ heard[j].id = id /\ heard[j].type \in Ends}
  IN IF ends = {} THEN 0 ELSE CHOOSE j \in ends : \A h \in ends : h <= j

\* the deltas of the response id on connection p among the events a..(n-1),
\* in arrival order
RECURSIVE DeltasFrom(_, _, _, _)
DeltasFrom(p, id, a, n) ==
  IF a >= n THEN <<>>
  ELSE (IF /\ heard[a].pc = p /\ heard[a].id = id
           /\ heard[a].type = "response.output_text.delta"
          THEN heard[a].delta ELSE <<>>) \o DeltasFrom(p, id, a + 1, n)

\* the text of the response id on connection p before the n-th event
TextOf(p, id, n) == DeltasFrom(p, id, LastEnd(p, id, n) + 1, n)

\* the text of the response of the n-th event when that event arrives
TextAt(n) == TextOf(heard[n].pc, heard[n].id, n)

\* the calls of the hook made by the n-th event
HookAt(n) == {k \in 1..Len(hookCalls) : hookCalls[k].n = n}

\* the last event of the response id on connection p, or 0
LastOf(p, id) ==
  LET evs == {j \in 1..Len(heard) : heard[j].pc = p /\ heard[j].id = id}
  IN IF evs = {} THEN 0 ELSE CHOOSE j \in evs : \A h \in evs : h <= j

\* C25: for each response id the deltas received on the oai-events channel
\* are accumulated in arrival order; response.completed calls the hook
\* exactly once with the concatenation of the id's deltas, and not at all
\* when that text is empty; after response.completed, response.error or
\* response.cancelled the buffer of the id no longer exists; error and
\* cancelled forward nothing
C25_TextForwarding ==
  /\ \A n \in 1..Len(heard) :
       IF heard[n].type = "response.completed" /\ TextAt(n) # <<>>
         THEN /\ Cardinality(HookAt(n)) = 1
              /\ \A k \in HookAt(n) : /\ hookCalls[k].text = TextAt(n)
                                      /\ hookCalls[k].id = heard[n].id
       ELSE heard[n].type # "raw" => HookAt(n) = {}
  /\ \A p \in 1..Len(pcs), id \in ResponseIds :
       /\ (LastOf(p, id) # 0 /\ heard[LastOf(p, id)].type \in Ends)
            => id \notin DOMAIN pcs[p].buffers
       /\ id \in DOMAIN pcs[p].buffers
            => pcs[p].buffers[id] = TextOf(p, id, Len(heard) + 1)

\* the hook has been called with a text of two deltas, in their order of
\* arrival, while the other response was being received
C25_Witness ==
  \E k \in 1..Len(hookCalls) :
    /\ hookCalls[k].text = D_OK \o D_BOOK
    /\ \E j \in 1..(hookCalls[k].n - 1) :
         heard[j].id # hookCalls[k].id /\ heard[j].type = "response.output_text.delta"

(* ---------------------------------------------------------------------- *)
(* One assistant response, from the data channel to the bookings table    *)
(* ---------------------------------------------------------------------- *)
\* the deltas of one response: words, and a booking line that is complete,
\* lacks the zone, or names the person under `name`
E2EDeltas == {D_OK, D_BOOK, <<TAG, J_NOZONE>>, <<TAG, J_NAME>>}
E2EEvents ==
  {Ev("response.output_text.delta", "r1", d) : d \in E2EDeltas}
    \cup {Ev("response.completed", "r1", <<>>)}

\* the k-th request of the page has reached the server
Arrived(k) == \E i \in Reqs : req[i].pc # "idle" /\ req[i].body = posts[k].body
InNetwork == {k \in 1..Len(posts) : ~Arrived(k)}

\* the events of one response, up to its completion
ResponseEvent(m) ==
  /\ \A j \in 1..Len(heard) : heard[j].type # "response.completed"
  /\ Deliver(1, m)

\* a request of the page reaches the server
PostArrives(k) ==
  /\ k \in InNetwork
  /\ \E i \in Reqs : BookReceive(i, posts[k].body)

E2EInit == Constructed /\ call = NoCall /\ ProxyIdle /\ ClientInSession

E2ENext ==
  \/ \E ok \in BOOLEAN : Bootstrap(ok)
  \/ PcConnects(1)
  \/ OaiChannel(1)
  \/ \E m \in E2EEvents : ResponseEvent(m)
  \/ \E k \in 1..Len(posts) : PostArrives(k)
  \/ \E i \in Reqs, ok \in BOOLEAN : BookInsertDone(i, ok)
  \/ \E i \in Reqs, ok \in BOOLEAN : BookUserMailDone(i, ok)
  \/ \E i \in Reqs, ok \in BOOLEAN : BookSalesMailDone(i, ok)
  \/ \E d \in TickSteps : Tick(d)
  \/ Sweep

E2ESpec == E2EInit /\ [][E2ENext]_vars

\* the rows written by POST /api/book
BookingRows == {k \in 1..Len(rows) : "source" \in DOMAIN rows[k]}

OneBooking ==
  /\ Cardinality(BookingRows) <= 1
  /\ Cardinality({i \in Reqs : req[i].insOk}) <= 1
  /\ Cardinality({i \in Reqs : req[i].userOk}) <= 1
  /\ Cardinality({i \in Reqs : req[i].salesOk}) <= 1

\* C28 as stated: one completed assistant response with a single booking
\* line yields at most one stored booking row, at most one confirmation email
\* and at most one sales email, although the capture of the client and the
\* hook each send their own POST /api/book and the server may handle the two
\* at the same time
C28_OneBookingPerResponse == OneBooking

\* C28 amended: the same, unless the two requests passed the de-dup check at
\* least DEDUP_SECONDS apart
C28_OneBookingPerWindow ==
  \/ OneBooking
  \/ \E i, j \in Reqs :
       /\ Passed(req[i]) /\ Passed(req[j])
       /\ req[j].at - req[i].at >= DEDUP_SECONDS

\* the hook and the capture both posted for the response; one request stored
\* the row and sent both emails, the other was answered as a duplicate
C28_Witness ==
  /\ \E a, b \in 1..Len(posts) : posts[a].by = "hook" /\ posts[b].by = "capture"
  /\ InNetwork = {}
  /\ Cardinality(BookingRows) = 1
  /\ \E i, j \in Reqs :
       /\ req[i].pc = "done" /\ req[i].insOk /\ req[i].userOk /\ req[i].salesOk
       /\ req[j].pc = "done" /\ req[j].dedup /\ req[j].status = 200

====
